---- MODULE Spec2Model ----
(***************************************************************************)
(* State-machine model of the reaction-game backend: the Matchmaker (pool  *)
(* assignment with an awaited durable-store restore), the JoinIntent       *)
(* pipeline (intent creation, status transitions, refunds), the blockchain *)
(* polling worker (deposit reconciliation) and match settlement.           *)
(*                                                                         *)
(* The process is single-threaded and event driven: code between two       *)
(* awaits runs atomically, and every await is a point where other handlers *)
(* may run.  Each action below is one such atomic slice.                   *)
(***************************************************************************)
EXTENDS Integers, Sequences, FiniteSets, Bags, TLC

(***************************************************************************)
(* Bounds                                                                  *)
(***************************************************************************)
NumPlayers == 3
NumCalls == 3
MaxMatches == 3
MaxOps == 4
MaxTime == 2
MaxJoins == 3

Players == 1..NumPlayers
CallIds == 1..NumCalls
MatchIds == 1..MaxMatches
RoomTypes == {"free", "ton"}

\* ROOM_PRESETS[...].maxPlayers: getMaxPlayers() default
maxPlayers == 2

NoMatch == 0
NumProcs == 2
NonceLen == 2
ProcIds == 1..NumProcs

\* a missing row / a null return value
NoIntent == 0
NoRow == [id |-> 0, roomType |-> "none", status |-> "none", players |-> <<>>]

(***************************************************************************)
(* Sequence helpers (JavaScript Map / array operations)                    *)
(***************************************************************************)
\* Array.prototype.some(p => p.id === x) on a roster of player ids
Contains(s, x) == \E i \in 1..Len(s) : s[i] = x

\* players.filter(p => p.id !== playerId)
Without(s, x) == SelectSeq(s, LAMBDA e : e # x)

\* index of the entry with key id in an insertion-ordered table, 0 if absent
IndexOf(tbl, id) ==
  IF \E i \in 1..Len(tbl) : tbl[i].id = id
  THEN CHOOSE i \in 1..Len(tbl) : tbl[i].id = id
  ELSE 0

\* Map.has
Has(tbl, id) == IndexOf(tbl, id) # 0

\* Map.get (only used when Has)
Get(tbl, id) == tbl[IndexOf(tbl, id)]

\* Map.set: an existing key keeps its position, a new key is appended
Put(tbl, rec) ==
  IF Has(tbl, rec.id)
  THEN [tbl EXCEPT ![IndexOf(tbl, rec.id)] = rec]
  ELSE Append(tbl, rec)

\* position of player p in a roster
IndexOfPlayer(s, p) == CHOOSE n \in 1..Len(s) : s[n] = p

\* Map.delete
Del(tbl, id) == SelectSeq(tbl, LAMBDA e : e.id # id)

(***************************************************************************)
(* State                                                                   *)
(***************************************************************************)
VARIABLES
  activeMatches,   \* Matchmaker.activeMatches, in Map insertion order
  playerToMatch,   \* Matchmaker.playerToMatch (NoMatch = no entry)
  dbMatches,       \* matches table with its match_players rows, by createdAt
  pendingDeletes,  \* fire-and-forget prisma.match.delete calls not yet run
  nextMatchId,     \* generateMatchId(): next fresh id
  calls,           \* in-flight findOrCreateMatch invocations
  ops,             \* number of operations requested so far
  fired,           \* players whose call of a concurrent burst was issued
  intents,         \* join_intents rows, by creation; the id is the position
  refunds,         \* refunds rows, by creation; the id is the position
  statusLog,       \* history: every write of join_intents.status, in order
  procs,           \* in-flight JoinIntentService calls
  returns,         \* values returned by completed createRefundForPlayer and
                   \* createJoinIntent calls, in order of return
  feed,            \* the transactions the chain will include, in order
  chainLen,        \* transactions at the escrow address: feed[1..chainLen]
  depositTxs,      \* deposit_txs rows, by creation
  lastCheckedLt,   \* worker_state.lastCheckedLt (0 = no row)
  cycles,          \* in-flight BlockchainWorker.checkTransactions runs
  timers,          \* pending setTimeout callbacks of the round loop, a bag
  stats,           \* player_stats rows
  payments,        \* payments rows of type payout, by creation
  settles,         \* in-flight settlements and processMatchCompletion calls
  settleLog,       \* history: finishMatch updates and processMatchCompletion
                   \* returns, in order
  joins,           \* in-flight match:join socket handlers
  events,          \* history: the socket events emitted so far
  calc,            \* the last call of a pure helper: its name, its arguments
                   \* and the value it returned
  socketToPlayer   \* Matchmaker.socketToPlayer; the socket of player p is
                   \* socket p (NoPlayer = no entry)

mmVars == <<activeMatches, playerToMatch, dbMatches, pendingDeletes,
            nextMatchId, calls, ops>>

\* everything the Matchmaker operations leave alone
intentVars == <<intents, refunds, statusLog, procs, returns>>

workerVars == <<feed, chainLen, depositTxs, lastCheckedLt, cycles>>

\* state outside the Matchmaker and the JoinIntentService tables
gameVars == <<timers, stats, payments, settles, settleLog>>

\* state of the socket handlers, and the pure helper called last
sockVars == <<joins, events, calc, socketToPlayer>>

NoPlayer == 0

\* socketToPlayer with the sockets of the players in S registered
Sockets(S) == [s \in Players |-> IF s \in S THEN s ELSE NoPlayer]

\* no pure helper was called yet
NoCalc == [fn |-> "none"]

restVars == <<fired, workerVars, gameVars, sockVars>>

nonMM == <<intentVars, restVars>>

\* everything the JoinIntentService status operations leave alone
nonIntent == <<activeMatches, playerToMatch, dbMatches, pendingDeletes,
               nextMatchId, calls, restVars>>

\* everything the blockchain worker leaves alone
nonWorker == <<activeMatches, playerToMatch, dbMatches, pendingDeletes,
               nextMatchId, calls, fired, refunds, procs, returns, gameVars,
               feed, sockVars>>

\* everything the round loop and the settlement leave alone
nonGame == <<playerToMatch, pendingDeletes, nextMatchId, calls, intentVars,
             fired, workerVars, sockVars>>

\* everything the round timers leave alone outside the game state
nonRound == <<playerToMatch, pendingDeletes, nextMatchId, calls, intentVars,
              fired, workerVars, joins, calc, socketToPlayer>>

vars == <<mmVars, intentVars, restVars>>

\* owner: the createJoinIntent call awaiting the result (0 = a direct call)
IdleCall ==
  [pc |-> "idle", player |-> 0, roomType |-> "none", dbMatch |-> NoRow,
   owner |-> 0, result |-> NoMatch]

\* the invocation returned id to its caller
Returned(owner, id) ==
  IF owner = 0
  THEN IdleCall
  ELSE [IdleCall EXCEPT !.pc = "done", !.owner = owner, !.result = id]

(***************************************************************************)
(* Matchmaker                                                              *)
(***************************************************************************)

\* one more request arrives (the model explores at most MaxOps requests)
Request == ops < MaxOps /\ ops' = ops + 1

\* Matchmaker.getMatchByPlayerId(p) is defined
HasMatchByPlayerId(p) ==
  playerToMatch[p] # NoMatch /\ Has(activeMatches, playerToMatch[p])

HasRoomOffByOne(m) == Len(m.players) <= maxPlayers

\* players.length < preset.maxPlayers
HasRoom(m) == Len(m.players) < maxPlayers

\* the memory scan of findOrCreateMatch: the filter predicate
IsWaitingCandidate(m, rt) ==
  /\ m.roomType = rt
  /\ m.status = "waiting"
  /\ Len(m.players) > 0
  /\ HasRoom(m)

\* waitingMatches[0]: first candidate in Map order, 0 if none
FirstWaiting(rt) ==
  IF \E i \in 1..Len(activeMatches) : IsWaitingCandidate(activeMatches[i], rt)
  THEN LET i == CHOOSE i \in 1..Len(activeMatches) :
                  /\ IsWaitingCandidate(activeMatches[i], rt)
                  /\ \A j \in 1..(i - 1) :
                        ~IsWaitingCandidate(activeMatches[j], rt)
       IN activeMatches[i].id
  ELSE NoMatch

\* prisma.match.findFirst({roomType, status:'waiting'}, orderBy createdAt asc)
DbFindFirstWaiting(rt) ==
  IF \E i \in 1..Len(dbMatches) :
        dbMatches[i].roomType = rt /\ dbMatches[i].status = "waiting"
  THEN LET i == CHOOSE i \in 1..Len(dbMatches) :
                  /\ dbMatches[i].roomType = rt
                  /\ dbMatches[i].status = "waiting"
                  /\ \A j \in 1..(i - 1) :
                        ~(dbMatches[j].roomType = rt
                          /\ dbMatches[j].status = "waiting")
       IN dbMatches[i]
  ELSE NoRow

NoPress == 0 - 1

\* a Match object as findOrCreateMatch builds it, new or restored (a stored
\* waiting match has currentRound 0 and scores 0): roundEndTime 0 stands for
\* roundStartTime and roundEndTime undefined, press is pressTime by player,
\* roundResults holds the roundNumber of each result, finishedAt is whether
\* it is set
NewMatch(id, rt, st, ps) ==
  [id |-> id, roomType |-> rt, status |-> st, players |-> ps,
   allPlayers |-> ps, currentRound |-> 0, roundEndTime |-> 0,
   press |-> [p \in Players |-> NoPress], score |-> [p \in Players |-> 0],
   statsUpdated |-> FALSE, roundResults |-> <<>>, finishedAt |-> FALSE]

\* the re-validation and join/create tail of findOrCreateMatch, run on the
\* table tbl and map p2m with candidate cand (NoMatch = none); yields the new
\* table, map, the returned match id and whether a match was created
JoinOrCreate(tbl, p2m, cand, p, rt) ==
  LET still == cand # NoMatch /\ Has(tbl, cand)
      ok == /\ still
            /\ Get(tbl, cand).status = "waiting"
            /\ HasRoom(Get(tbl, cand))
  IN IF ok
     THEN LET m == Get(tbl, cand)
          IN IF Contains(m.players, p)
             THEN [tbl |-> tbl,
                   p2m |-> [p2m EXCEPT ![p] = cand],
                   result |-> cand, created |-> FALSE]
             ELSE [tbl |-> Put(tbl,
                       [m EXCEPT !.players = Append(m.players, p),
                                 !.allPlayers =
                                    IF Contains(m.allPlayers, p)
                                    THEN m.allPlayers
                                    ELSE Append(m.allPlayers, p)]),
                   p2m |-> [p2m EXCEPT ![p] = cand],
                   result |-> cand, created |-> FALSE]
     ELSE [tbl |-> Append(tbl, NewMatch(nextMatchId, rt, "waiting", <<p>>)),
           p2m |-> [p2m EXCEPT ![p] = nextMatchId],
           result |-> nextMatchId, created |-> TRUE]

\* number of invocations that may still create a match
InFlight == Cardinality({c \in CallIds : calls[c].pc \in {"lookup", "resume"}})

\* findOrCreateMatch up to its first await: the memory scan; when a waiting
\* match is found the whole join runs without suspending
FindOrCreateEnter(c, p, rt, owner) ==
  /\ calls[c].pc = "idle"
  /\ \A d \in 1..(c - 1) : calls[d].pc # "idle"
  /\ LET cand == FirstWaiting(rt)
     IN IF cand # NoMatch
        THEN LET r == JoinOrCreate(activeMatches, playerToMatch, cand, p, rt)
             IN /\ activeMatches' = r.tbl
                /\ playerToMatch' = r.p2m
                /\ calls' = [calls EXCEPT ![c] = Returned(owner, r.result)]
        ELSE /\ nextMatchId + InFlight <= MaxMatches
             /\ calls' = [calls EXCEPT ![c] =
                     [IdleCall EXCEPT !.pc = "lookup", !.player = p,
                        !.roomType = rt, !.owner = owner]]
             /\ UNCHANGED <<activeMatches, playerToMatch>>
  /\ UNCHANGED <<dbMatches, pendingDeletes, nextMatchId>>

FindOrCreateBegin(c, p, rt) ==
  /\ Request
  /\ FindOrCreateEnter(c, p, rt, 0)

\* a direct call of Matchmaker.findOrCreateMatch
FindOrCreateMatch(c, p, rt) ==
  /\ FindOrCreateBegin(c, p, rt)
  /\ UNCHANGED nonMM

\* one call of a burst of concurrent findOrCreateMatch calls, one per player
BurstFire(c, p) ==
  /\ p \notin fired
  /\ fired' = fired \cup {p}
  /\ FindOrCreateBegin(c, p, "free")
  /\ UNCHANGED <<intentVars, workerVars, gameVars, sockVars>>

\* the match:join handler for pooled rooms: the already-in-a-match check,
\* then findOrCreateMatch
MatchJoin(c, p, rt) ==
  /\ ~HasMatchByPlayerId(p)
  /\ FindOrCreateBegin(c, p, rt)
  /\ UNCHANGED nonMM

\* the durable store answers the awaited findFirst
DbLookup(c) ==
  /\ calls[c].pc = "lookup"
  /\ calls' = [calls EXCEPT ![c].pc = "resume",
                            ![c].dbMatch = DbFindFirstWaiting(calls[c].roomType)]
  /\ UNCHANGED <<activeMatches, playerToMatch, dbMatches, pendingDeletes,
                 nextMatchId, ops>>
  /\ UNCHANGED nonMM

\* findOrCreateMatch after the await: restore, re-validate, join or create
FindOrCreateResume(c) ==
  /\ calls[c].pc = "resume"
  /\ LET db == calls[c].dbMatch
         p == calls[c].player
         rt == calls[c].roomType
         restore == db # NoRow /\ Len(db.players) < maxPlayers
         tbl1 == IF restore
                 THEN Put(activeMatches,
                        NewMatch(db.id, db.roomType, db.status, db.players))
                 ELSE activeMatches
         p2m1 == IF restore
                 THEN [q \in Players |->
                         IF Contains(db.players, q) THEN db.id
                         ELSE playerToMatch[q]]
                 ELSE playerToMatch
         cand == IF restore THEN db.id ELSE NoMatch
         r == JoinOrCreate(tbl1, p2m1, cand, p, rt)
     IN /\ activeMatches' = r.tbl
        /\ playerToMatch' = r.p2m
        /\ nextMatchId' = IF r.created THEN nextMatchId + 1 ELSE nextMatchId
        /\ calls' = [calls EXCEPT ![c] = Returned(calls[c].owner, r.result)]
  /\ UNCHANGED <<dbMatches, pendingDeletes, ops>>
  /\ UNCHANGED nonMM

\* Matchmaker.startMatch
StartMatch(id) ==
  /\ Request
  /\ Has(activeMatches, id)
  /\ LET m == Get(activeMatches, id)
     IN /\ m.status = "waiting"
        /\ ~(Len(m.players) < maxPlayers)
        /\ ~(Len(m.players) < 2)
        /\ activeMatches' = Put(activeMatches, [m EXCEPT !.status = "playing"])
  /\ UNCHANGED <<playerToMatch, dbMatches, pendingDeletes, nextMatchId, calls>>
  /\ UNCHANGED nonMM

\* Matchmaker.removePlayer
RemovePlayer(p) ==
  /\ Request
  /\ playerToMatch[p] # NoMatch
  /\ Has(activeMatches, playerToMatch[p])
  /\ LET id == playerToMatch[p]
         m == Get(activeMatches, id)
         rest == Without(m.players, p)
     IN /\ IF Len(rest) = 0
           THEN /\ activeMatches' = Del(activeMatches, id)
                /\ pendingDeletes' =
                     IF m.status = "waiting"
                     THEN pendingDeletes \cup {id}
                     ELSE pendingDeletes
           ELSE /\ activeMatches' = Put(activeMatches, [m EXCEPT !.players = rest])
                /\ UNCHANGED pendingDeletes
        /\ playerToMatch' = [playerToMatch EXCEPT ![p] = NoMatch]
  /\ UNCHANGED <<dbMatches, nextMatchId, calls>>
  /\ UNCHANGED nonMM

\* the fire-and-forget prisma.match.delete of removePlayer reaches the store;
\* join_intents.roomId references matches ON DELETE SET NULL
DbDelete(id) ==
  /\ id \in pendingDeletes
  /\ pendingDeletes' = pendingDeletes \ {id}
  /\ dbMatches' = Del(dbMatches, id)
  /\ intents' = [i \in 1..Len(intents) |->
        IF intents[i].match = id
        THEN [intents[i] EXCEPT !.match = NoMatch]
        ELSE intents[i]]
  /\ UNCHANGED <<activeMatches, playerToMatch, nextMatchId, calls, ops>>
  /\ UNCHANGED <<refunds, statusLog, procs, returns, restVars>>

\* players to append to the match_players rows: allPlayers not yet stored
NewDbPlayers(stored, allp) == SelectSeq(allp, LAMBDA q : ~Contains(stored, q))

\* the matches row and match_players rows after saveMatch of live match m
SavedRow(m) ==
  LET stored == IF Has(dbMatches, m.id) THEN Get(dbMatches, m.id).players
                ELSE <<>>
  IN [id |-> m.id, roomType |-> m.roomType, status |-> m.status,
      players |-> stored \o NewDbPlayers(stored, m.allPlayers)]

\* MatchService.saveMatch: upsert the match row, create missing player rows
SaveMatch(id) ==
  /\ Request
  /\ Has(activeMatches, id)
  /\ LET row == SavedRow(Get(activeMatches, id))
     IN /\ ~(Has(dbMatches, id) /\ Get(dbMatches, id) = row)
        /\ dbMatches' = Put(dbMatches, row)
  /\ UNCHANGED <<activeMatches, playerToMatch, pendingDeletes, nextMatchId, calls>>
  /\ UNCHANGED nonMM

(***************************************************************************)
(* JoinIntentService: status transitions and refunds                       *)
(***************************************************************************)
IntentIds == 1..Len(intents)

\* players with a linked wallet (walletService.getWalletByPlayerId)
Wallets == Players \ {NumPlayers}

NoTx == 0

Digits == <<"1", "2", "3", "4", "5", "6", "7", "8", "9">>

\* roomIdToString(matchIdToRoomId(match.id)): the decimal string of the room
\* id; the model's room id of match m is m
OnChainRoomId(m) == <<Digits[m]>>

\* generateNonce(): NonceLen lowercase hex digits (64 in the code), fresh for
\* each intent
GenerateNonce(id) == [n \in 1..NonceLen |-> IF n = 1 THEN Digits[id] ELSE "a"]

\* a join_intents row as createJoinIntent writes it
NewIntent(id, p, m) ==
  [player |-> p, match |-> m, room |-> OnChainRoomId(m),
   nonce |-> GenerateNonce(id), status |-> "CREATED", expired |-> FALSE]

\* getPaymentParams: the comment of the deposit
PaymentComment(intent) ==
  <<"j", "o", "i", "n", ":">> \o intent.room \o <<":">> \o intent.nonce

IdleProc == [op |-> "idle", pc |-> "idle", i |-> NoIntent, p |-> 0, m |-> NoMatch]

\* a call starts in the lowest free slot
FreeSlot(k) ==
  /\ procs[k].op = "idle"
  /\ \A d \in 1..(k - 1) : procs[d].op # "idle"

\* the log entry of writing status st to intent i on behalf of deposit tx
Written(i, st, tx) ==
  [i |-> i, from |-> intents[i].status, to |-> st, tx |-> tx]

PaidWrite(k, i) == statusLog[k].i = i /\ statusLog[k].to = "PAID"

\* position of the last write of PAID to intent i (its paidAt), 0 if none
PaidAt(i) ==
  IF \E k \in 1..Len(statusLog) : PaidWrite(k, i)
  THEN CHOOSE k \in 1..Len(statusLog) :
         PaidWrite(k, i) /\ \A j \in (k + 1)..Len(statusLog) : ~PaidWrite(j, i)
  ELSE 0

\* the refunds row of intent i, 0 if none
RefundOf(i) ==
  IF \E r \in 1..Len(refunds) : refunds[r].intent = i
  THEN CHOOSE r \in 1..Len(refunds) : refunds[r].intent = i
  ELSE 0

\* the clock passes expiresAt of an intent
Expire(i) ==
  /\ i \in IntentIds
  /\ ~intents[i].expired
  /\ intents' = [intents EXCEPT ![i].expired = TRUE]
  /\ UNCHANGED <<refunds, statusLog, procs, returns, ops>>
  /\ UNCHANGED nonIntent

\* the where-clause of createJoinIntent's findFirst
ActiveIntent(i, p) ==
  /\ intents[i].player = p
  /\ intents[i].status = "CREATED"
  /\ ~intents[i].expired

\* findFirst(...) orderBy createdAt desc; NoIntent if none
ExistingIntent(p) ==
  IF \E i \in IntentIds : ActiveIntent(i, p)
  THEN CHOOSE i \in IntentIds :
         ActiveIntent(i, p) /\ \A j \in IntentIds : ActiveIntent(j, p) => j <= i
  ELSE NoIntent

\* createJoinIntent(p, 'ton') up to findOrCreateMatch: the wallet lookup
\* (throws without a wallet) and the search for an active intent
CreateIntentFind(k, p) ==
  /\ Request
  /\ FreeSlot(k)
  /\ IF p \notin Wallets
     THEN UNCHANGED <<procs, returns>>
     ELSE IF ExistingIntent(p) # NoIntent
     THEN /\ returns' = Append(returns,
                [op |-> "create", p |-> p, m |-> intents[ExistingIntent(p)].match,
                 id |-> ExistingIntent(p)])
          /\ UNCHANGED procs
     ELSE /\ procs' = [procs EXCEPT ![k] =
                [IdleProc EXCEPT !.op = "create", !.pc = "match", !.p = p]]
          /\ UNCHANGED returns
  /\ UNCHANGED <<intents, refunds, statusLog>>
  /\ UNCHANGED nonIntent

\* createJoinIntent: await matchmaker.findOrCreateMatch('ton', player)
CreateIntentMatch(k, c) ==
  /\ procs[k].op = "create" /\ procs[k].pc = "match"
  /\ FindOrCreateEnter(c, procs[k].p, "ton", k)
  /\ procs' = [procs EXCEPT ![k].pc = "save"]
  /\ UNCHANGED <<ops, intents, refunds, statusLog, returns, restVars>>

\* createJoinIntent: findOrCreateMatch returned; await saveMatch(match)
CreateIntentSave(k, c) ==
  /\ procs[k].op = "create" /\ procs[k].pc = "save"
  /\ calls[c].pc = "done" /\ calls[c].owner = k
  /\ dbMatches' =
        IF Has(activeMatches, calls[c].result)
        THEN Put(dbMatches, SavedRow(Get(activeMatches, calls[c].result)))
        ELSE dbMatches
  /\ calls' = [calls EXCEPT ![c] = IdleCall]
  /\ procs' = [procs EXCEPT ![k].pc = "insert", ![k].m = calls[c].result]
  /\ UNCHANGED <<activeMatches, playerToMatch, pendingDeletes, nextMatchId, ops>>
  /\ UNCHANGED <<intents, refunds, statusLog, returns, restVars>>

\* createJoinIntent: prisma.joinIntent.create and the return of the intent
CreateIntentInsert(k) ==
  /\ procs[k].op = "create" /\ procs[k].pc = "insert"
  /\ intents' = Append(intents,
        NewIntent(Len(intents) + 1, procs[k].p, procs[k].m))
  /\ returns' = Append(returns,
        [op |-> "create", p |-> procs[k].p, m |-> procs[k].m,
         id |-> Len(intents) + 1])
  /\ procs' = [procs EXCEPT ![k] = IdleProc]
  /\ UNCHANGED <<refunds, statusLog, ops>>
  /\ UNCHANGED nonIntent

\* markIntentPaid / cancelIntent: the status check after findUnique
StatusCheck(st) == st = "CREATED"

\* markIntentPaid(i) up to its update: the intent must exist and be CREATED
MarkPaidRead(k, i) ==
  /\ Request
  /\ FreeSlot(k)
  /\ i \in IntentIds
  /\ procs' = [procs EXCEPT ![k] =
        IF StatusCheck(intents[i].status)
        THEN [IdleProc EXCEPT !.op = "pay", !.pc = "write", !.i = i]
        ELSE IdleProc]
  /\ UNCHANGED <<intents, refunds, statusLog, returns>>
  /\ UNCHANGED nonIntent

\* markIntentPaid: prisma.joinIntent.update({where: {id}, data: PAID})
MarkPaidWrite(k) ==
  /\ procs[k].op = "pay" /\ procs[k].pc = "write"
  /\ intents' = [intents EXCEPT ![procs[k].i].status = "PAID"]
  /\ statusLog' = Append(statusLog, Written(procs[k].i, "PAID", NoTx))
  /\ procs' = [procs EXCEPT ![k] = IdleProc]
  /\ UNCHANGED <<refunds, returns, ops>>
  /\ UNCHANGED nonIntent

\* cancelIntent(i) up to its update
CancelRead(k, i) ==
  /\ Request
  /\ FreeSlot(k)
  /\ i \in IntentIds
  /\ procs' = [procs EXCEPT ![k] =
        IF StatusCheck(intents[i].status)
        THEN [IdleProc EXCEPT !.op = "cancel", !.pc = "write", !.i = i]
        ELSE IdleProc]
  /\ UNCHANGED <<intents, refunds, statusLog, returns>>
  /\ UNCHANGED nonIntent

\* cancelIntent: prisma.joinIntent.update({where: {id}, data: CANCELLED})
CancelWrite(k) ==
  /\ procs[k].op = "cancel" /\ procs[k].pc = "write"
  /\ intents' = [intents EXCEPT ![procs[k].i].status = "CANCELLED"]
  /\ statusLog' = Append(statusLog, Written(procs[k].i, "CANCELLED", NoTx))
  /\ procs' = [procs EXCEPT ![k] = IdleProc]
  /\ UNCHANGED <<refunds, returns, ops>>
  /\ UNCHANGED nonIntent

\* the where-clause of cancelExpiredIntents
Overdue(i) == intents[i].status = "CREATED" /\ intents[i].expired

\* log entries of cancelling the overdue intents among the first n
RECURSIVE SweepLog(_)
SweepLog(n) ==
  IF n = 0 THEN <<>>
  ELSE IF Overdue(n) THEN Append(SweepLog(n - 1), Written(n, "CANCELLED", NoTx))
  ELSE SweepLog(n - 1)

\* cancelExpiredIntents: one updateMany over CREATED intents past expiresAt
CancelExpiredIntents ==
  /\ Request
  /\ \E i \in IntentIds : Overdue(i)
  /\ intents' = [i \in IntentIds |->
        IF Overdue(i)
        THEN [intents[i] EXCEPT !.status = "CANCELLED"]
        ELSE intents[i]]
  /\ statusLog' = statusLog \o SweepLog(Len(intents))
  /\ UNCHANGED <<refunds, procs, returns>>
  /\ UNCHANGED nonIntent

RefundableAny(i, p, m) == intents[i].player = p /\ intents[i].match = m

\* the where-clause of getIntentForMatch
Refundable(i, p, m) ==
  /\ intents[i].player = p
  /\ intents[i].match = m
  /\ intents[i].status = "PAID"

\* getIntentForMatch: findFirst(...) orderBy paidAt desc; NoIntent if none
GetIntentForMatch(p, m) ==
  IF \E i \in IntentIds : Refundable(i, p, m)
  THEN CHOOSE i \in IntentIds :
         /\ Refundable(i, p, m)
         /\ \A j \in IntentIds : Refundable(j, p, m) => PaidAt(j) <= PaidAt(i)
  ELSE NoIntent

\* createRefundForPlayer(p, m): the awaited getIntentForMatch
RefundFind(k, p, m) ==
  /\ Request
  /\ FreeSlot(k)
  /\ LET i == GetIntentForMatch(p, m)
     IN IF i = NoIntent
        THEN /\ returns' = Append(returns, [op |-> "refund", p |-> p, m |-> m, id |-> NoIntent])
             /\ UNCHANGED procs
        ELSE /\ procs' = [procs EXCEPT ![k] =
                  [IdleProc EXCEPT !.op = "refund", !.pc = "existing",
                                   !.i = i, !.p = p, !.m = m]]
             /\ UNCHANGED returns
  /\ UNCHANGED <<intents, refunds, statusLog>>
  /\ UNCHANGED nonIntent

\* createRefundForPlayer: prisma.refund.findUnique({joinIntentId})
RefundExisting(k) ==
  /\ procs[k].op = "refund" /\ procs[k].pc = "existing"
  /\ IF RefundOf(procs[k].i) # 0
     THEN /\ returns' = Append(returns,
                [op |-> "refund", p |-> procs[k].p, m |-> procs[k].m,
                 id |-> RefundOf(procs[k].i)])
          /\ procs' = [procs EXCEPT ![k] = IdleProc]
     ELSE /\ procs' = [procs EXCEPT ![k].pc = "create"]
          /\ UNCHANGED returns
  /\ UNCHANGED <<intents, refunds, statusLog, ops>>
  /\ UNCHANGED nonIntent

RefundsIntentKeyOff(i) == TRUE

\* the unique index refunds_joinIntentId_key admits a row for intent i
RefundsIntentKey(i) == RefundOf(i) = 0

\* createRefundForPlayer: the wallet lookup and prisma.refund.create; the
\* unique index on joinIntentId rejects a second row and the call throws
RefundCreate(k) ==
  /\ procs[k].op = "refund" /\ procs[k].pc = "create"
  /\ IF RefundsIntentKey(procs[k].i)
     THEN /\ refunds' = Append(refunds, [intent |-> procs[k].i])
          /\ procs' = [procs EXCEPT ![k].pc = "update"]
     ELSE /\ procs' = [procs EXCEPT ![k] = IdleProc]
          /\ UNCHANGED refunds
  /\ UNCHANGED <<intents, statusLog, returns, ops>>
  /\ UNCHANGED nonIntent

\* createRefundForPlayer: update the intent to REFUNDED, return the refund id
RefundUpdate(k) ==
  /\ procs[k].op = "refund" /\ procs[k].pc = "update"
  /\ intents' = [intents EXCEPT ![procs[k].i].status = "REFUNDED"]
  /\ statusLog' = Append(statusLog, Written(procs[k].i, "REFUNDED", NoTx))
  /\ returns' = Append(returns,
        [op |-> "refund", p |-> procs[k].p, m |-> procs[k].m,
         id |-> RefundOf(procs[k].i)])
  /\ procs' = [procs EXCEPT ![k] = IdleProc]
  /\ UNCHANGED <<refunds, ops>>
  /\ UNCHANGED nonIntent

\* createRefundForPlayer: prisma.joinIntent.update rejects (the database is
\* unavailable, the process stops); the call throws after the refund row
RefundUpdateFails(k) ==
  /\ procs[k].op = "refund" /\ procs[k].pc = "update"
  /\ procs' = [procs EXCEPT ![k] = IdleProc]
  /\ UNCHANGED <<intents, refunds, statusLog, returns, ops>>
  /\ UNCHANGED nonIntent

(***************************************************************************)
(* TonBlockchainService and BlockchainWorker: deposit reconciliation       *)
(***************************************************************************)
Join == <<"j", "o", "i", "n", ":">>

\* the transactions that reach the escrow address, in order of logical time;
\* the hash and the lt of a transaction are its position.  age is the age of
\* the block in seconds when the worker looks at it, value is in nanotons
\* (0 = no in_msg value), dest is in_msg.destination ("none" = absent)
Catalog ==
  << \* the nonce of intent 1 under the room id of another match
     [comment |-> Join \o OnChainRoomId(2) \o <<":">> \o GenerateNonce(1),
      dest |-> "escrow",
      account |-> "escrow", value |-> 150000000, source |-> TRUE, age |-> 30],
     \* the old format without a room id
     [comment |-> Join \o GenerateNonce(1), dest |-> "escrow",
      account |-> "escrow", value |-> 150000000, source |-> TRUE, age |-> 30],
     \* the deposit of intent 1
     [comment |-> Join \o OnChainRoomId(1) \o <<":">> \o GenerateNonce(1),
      dest |-> "escrow",
      account |-> "escrow", value |-> 150000000, source |-> TRUE, age |-> 30],
     \* a second deposit of intent 1, padded with blanks
     [comment |-> <<" ">> \o Join \o OnChainRoomId(1) \o <<":">>
                        \o GenerateNonce(1) \o <<" ">>,
      dest |-> "none", account |-> "escrow", value |-> 150000000,
      source |-> TRUE, age |-> 30],
     \* intent 2 underpaid
     [comment |-> Join \o OnChainRoomId(1) \o <<":">> \o GenerateNonce(2),
      dest |-> "escrow",
      account |-> "escrow", value |-> 50000000, source |-> TRUE, age |-> 30] >>

TxIds == 1..Len(feed)

\* String.prototype.trim over the blank
RECURSIVE TrimLeft(_)
TrimLeft(s) ==
  IF Len(s) > 0 /\ Head(s) = " " THEN TrimLeft(Tail(s)) ELSE s

RECURSIVE TrimRight(_)
TrimRight(s) ==
  IF Len(s) > 0 /\ s[Len(s)] = " "
  THEN TrimRight(SubSeq(s, 1, Len(s) - 1))
  ELSE s

Trim(s) == TrimRight(TrimLeft(s))

StartsWith(s, pre) == Len(s) >= Len(pre) /\ SubSeq(s, 1, Len(pre)) = pre

\* String.prototype.split(':'): the empty string yields one empty part
RECURSIVE Split(_)
Split(s) ==
  IF \E n \in 1..Len(s) : s[n] = ":"
  THEN LET n == CHOOSE n \in 1..Len(s) :
                  s[n] = ":" /\ \A j \in 1..(n - 1) : s[j] # ":"
       IN <<SubSeq(s, 1, n - 1)>> \o Split(SubSeq(s, n + 1, Len(s)))
  ELSE <<s>>

HexChars ==
  {"0", "1", "2", "3", "4", "5", "6", "7", "8", "9",
   "a", "b", "c", "d", "e", "f", "A", "B", "C", "D", "E", "F"}

\* a test of the alphabet only, with no test of the length
IsNonceAnyLength(s) == \A n \in 1..Len(s) : s[n] \in HexChars

\* /^[0-9a-fA-F]{64}$/ with the model's nonce length
IsNonce(s) == Len(s) = NonceLen /\ \A n \in 1..Len(s) : s[n] \in HexChars

NoParse == [ok |-> FALSE, roomId |-> <<>>, nonce |-> <<>>]

\* extractRoomIdAndNonceFromComment
ExtractRoomIdAndNonceFromComment(comment) ==
  LET trimmed == Trim(comment)
  IN IF StartsWith(trimmed, Join)
     THEN LET parts == Split(SubSeq(trimmed, 6, Len(trimmed)))
          IN IF Len(parts) = 2 /\ IsNonce(parts[2])
             THEN [ok |-> TRUE, roomId |-> parts[1], nonce |-> parts[2]]
             ELSE NoParse
     ELSE NoParse

\* the mapping of a TonCenter transaction to TonTransaction: account.address
\* is filled in with the escrow address the request was made for
MapTonCenter(tc) == [tc EXCEPT !.account = "escrow"]

\* verifyEscrowDestination
VerifyEscrowDestination(tx) ==
  IF tx.dest # "none" THEN tx.dest = "escrow" ELSE tx.account = "escrow"

\* the where-clause of the worker's findMany: CREATED and not expired
Active(i) == intents[i].status = "CREATED" /\ ~intents[i].expired

\* nonceMap.get(nonce): the active intent with that nonce, NoIntent if none
NonceMapGet(nonce) ==
  IF \E i \in IntentIds : Active(i) /\ intents[i].nonce = nonce
  THEN CHOOSE i \in IntentIds : Active(i) /\ intents[i].nonce = nonce
  ELSE NoIntent

RoomIdMatchesAny(stored, roomId) == TRUE

\* the security check: onChainRoomId is set and equals the parsed room id
RoomIdMatches(stored, roomId) == stored # <<>> /\ stored = roomId

\* the intent a transaction of the batch is matched to, NoIntent if skipped
MatchOf(t, sinceLt) ==
  LET tx == feed[t]
      parsed == ExtractRoomIdAndNonceFromComment(tx.comment)
      i == NonceMapGet(parsed.nonce)
  IN IF sinceLt # 0 /\ t <= sinceLt THEN NoIntent
     ELSE IF tx.comment = <<>> THEN NoIntent
     ELSE IF ~parsed.ok THEN NoIntent
     ELSE IF i = NoIntent THEN NoIntent
     ELSE IF ~RoomIdMatches(intents[i].room, parsed.roomId) THEN NoIntent
     ELSE IF ~VerifyEscrowDestination(MapTonCenter(tx)) THEN NoIntent
     ELSE IF tx.value = 0 THEN NoIntent
     ELSE IF ~tx.source THEN NoIntent
     ELSE i

\* the matches of checkIncomingTransactions over transactions n, n-1, .., 1
\* (the feed lists the newest first)
RECURSIVE Matches(_, _)
Matches(n, sinceLt) ==
  IF n = 0 THEN <<>>
  ELSE (IF MatchOf(n, sinceLt) # NoIntent
        THEN <<[intent |-> MatchOf(n, sinceLt), tx |-> n]>>
        ELSE <<>>) \o Matches(n - 1, sinceLt)

EntryFeeNano == 100000000

ToleranceNano == 1000000

AmountTooLowNoTolerance(value) == value < EntryFeeNano

\* receivedAmountTon < entryFee - TOLERANCE, in nanotons
AmountTooLow(value) == value < EntryFeeNano - ToleranceNano

MaxAgeSeconds == 600

FutureSkewSeconds == 60

\* the test of the age alone, with no test of block times in the future
ValidateDepositTimestampNoFuture(age) == ~(age > MaxAgeSeconds)

\* validateDepositTimestamp, on the age now - blockTime
ValidateDepositTimestamp(age) ==
  /\ ~(age > MaxAgeSeconds)
  /\ ~(0 - age > FutureSkewSeconds)

IdleCycle ==
  [pc |-> "idle", sinceLt |-> 0, fetched |-> 0, matches |-> <<>>,
   idx |-> 0, latestLt |-> 0]

\* the match processDepositMatch of cycle w is working on
Cur(w) == cycles[w].matches[cycles[w].idx]

\* processDepositMatch returned: the next match, or the cursor update
Advance(w) ==
  IF cycles[w].idx < Len(cycles[w].matches)
  THEN [cycles[w] EXCEPT !.pc = "intent", !.idx = cycles[w].idx + 1]
  ELSE [cycles[w] EXCEPT !.pc = "save"]

\* a transaction is included at the escrow address
Arrive ==
  /\ chainLen < Len(feed)
  /\ chainLen' = chainLen + 1
  /\ UNCHANGED <<depositTxs, lastCheckedLt, cycles, intents, statusLog, ops>>
  /\ UNCHANGED nonWorker

\* the setInterval callback: checkTransactions up to getLastCheckedLt; the
\* timer does not wait for the previous run
CycleStart(w) ==
  /\ Request
  /\ cycles[w].pc = "idle"
  /\ \A d \in 1..(w - 1) : cycles[d].pc # "idle"
  /\ cycles' = [cycles EXCEPT ![w] =
        IF \E i \in IntentIds : Active(i)
        THEN [IdleCycle EXCEPT !.pc = "cursor"]
        ELSE IdleCycle]
  /\ UNCHANGED <<chainLen, depositTxs, lastCheckedLt, intents, statusLog>>
  /\ UNCHANGED nonWorker

\* getLastCheckedLt
CycleCursor(w) ==
  /\ cycles[w].pc = "cursor"
  /\ cycles' = [cycles EXCEPT ![w].pc = "fetch", ![w].sinceLt = lastCheckedLt]
  /\ UNCHANGED <<chainLen, depositTxs, lastCheckedLt, intents, statusLog, ops>>
  /\ UNCHANGED nonWorker

\* checkIncomingTransactions: the getTransactions request; a failed request
\* throws and ends the run, an empty result returns no matches
CycleFetch(w, ok) ==
  /\ cycles[w].pc = "fetch"
  /\ cycles' = [cycles EXCEPT ![w] =
        IF ~ok THEN IdleCycle
        ELSE IF chainLen = 0
        THEN IF cycles[w].sinceLt # 0
             THEN [cycles[w] EXCEPT !.pc = "save",
                                    !.latestLt = cycles[w].sinceLt]
             ELSE IdleCycle
        ELSE [cycles[w] EXCEPT !.pc = "scan", !.fetched = chainLen]]
  /\ UNCHANGED <<chainLen, depositTxs, lastCheckedLt, intents, statusLog, ops>>
  /\ UNCHANGED nonWorker

\* checkIncomingTransactions: the findMany of active intents and the loop
CycleScan(w) ==
  /\ cycles[w].pc = "scan"
  /\ LET found == Matches(cycles[w].fetched, cycles[w].sinceLt)
     IN cycles' = [cycles EXCEPT ![w] =
          IF found = <<>>
          THEN [cycles[w] EXCEPT !.pc = "save", !.latestLt = cycles[w].fetched]
          ELSE [cycles[w] EXCEPT !.pc = "intent", !.matches = found,
                                 !.idx = 1, !.latestLt = cycles[w].fetched]]
  /\ UNCHANGED <<chainLen, depositTxs, lastCheckedLt, intents, statusLog, ops>>
  /\ UNCHANGED nonWorker

\* processDepositMatch: getIntent and the status check
DepositGetIntent(w) ==
  /\ cycles[w].pc = "intent"
  /\ cycles' = [cycles EXCEPT ![w] =
        IF intents[Cur(w).intent].status = "CREATED"
        THEN [cycles[w] EXCEPT !.pc = "tx"]
        ELSE Advance(w)]
  /\ UNCHANGED <<chainLen, depositTxs, lastCheckedLt, intents, statusLog, ops>>
  /\ UNCHANGED nonWorker

DepositGetTransactionNoDest(w, ok) ==
  /\ cycles[w].pc = "tx"
  /\ LET tx == feed[Cur(w).tx]
         pass == /\ ok
                 /\ ~AmountTooLow(tx.value)
                 /\ ValidateDepositTimestamp(tx.age)
     IN cycles' = [cycles EXCEPT ![w] =
          IF pass THEN [cycles[w] EXCEPT !.pc = "existing"] ELSE Advance(w)]
  /\ UNCHANGED <<chainLen, depositTxs, lastCheckedLt, intents, statusLog, ops>>
  /\ UNCHANGED nonWorker

\* processDepositMatch: getTransaction (null when the request fails), then
\* the destination, amount and timestamp checks
DepositGetTransaction(w, ok) ==
  /\ cycles[w].pc = "tx"
  /\ LET tx == feed[Cur(w).tx]
         txDestination == IF tx.dest # "none" THEN tx.dest ELSE tx.account
         pass == /\ ok
                 /\ txDestination = "escrow"
                 /\ ~AmountTooLow(tx.value)
                 /\ ValidateDepositTimestamp(tx.age)
     IN cycles' = [cycles EXCEPT ![w] =
          IF pass THEN [cycles[w] EXCEPT !.pc = "existing"] ELSE Advance(w)]
  /\ UNCHANGED <<chainLen, depositTxs, lastCheckedLt, intents, statusLog, ops>>
  /\ UNCHANGED nonWorker

\* processDepositMatch: depositTx.findUnique({txHash}); an existing row sends
\* the run to markIntentPaid, the intent read earlier being CREATED
DepositExisting(w) ==
  /\ cycles[w].pc = "existing"
  /\ cycles' = [cycles EXCEPT ![w].pc =
        IF \E r \in 1..Len(depositTxs) : depositTxs[r].txHash = Cur(w).tx
        THEN "payread"
        ELSE "create"]
  /\ UNCHANGED <<chainLen, depositTxs, lastCheckedLt, intents, statusLog, ops>>
  /\ UNCHANGED nonWorker

\* the unique indexes deposit_txs_txHash_key and deposit_txs_joinIntentId_key
\* admit a row for transaction tx and intent i
DepositKeys(tx, i) ==
  \A r \in 1..Len(depositTxs) :
    depositTxs[r].txHash # tx /\ depositTxs[r].joinIntentId # i

\* processDepositMatch: depositTx.create; a violated index throws
DepositCreate(w) ==
  /\ cycles[w].pc = "create"
  /\ IF DepositKeys(Cur(w).tx, Cur(w).intent)
     THEN /\ depositTxs' = Append(depositTxs,
                [txHash |-> Cur(w).tx, joinIntentId |-> Cur(w).intent])
          /\ cycles' = [cycles EXCEPT ![w].pc = "payread"]
     ELSE /\ cycles' = [cycles EXCEPT ![w] = Advance(w)]
          /\ UNCHANGED depositTxs
  /\ UNCHANGED <<chainLen, lastCheckedLt, intents, statusLog, ops>>
  /\ UNCHANGED nonWorker

\* markIntentPaid called by the worker: findUnique and the status check
DepositPaidRead(w) ==
  /\ cycles[w].pc = "payread"
  /\ cycles' = [cycles EXCEPT ![w] =
        IF StatusCheck(intents[Cur(w).intent].status)
        THEN [cycles[w] EXCEPT !.pc = "paywrite"]
        ELSE Advance(w)]
  /\ UNCHANGED <<chainLen, depositTxs, lastCheckedLt, intents, statusLog, ops>>
  /\ UNCHANGED nonWorker

\* markIntentPaid called by the worker: the update to PAID
DepositPaidWrite(w) ==
  /\ cycles[w].pc = "paywrite"
  /\ intents' = [intents EXCEPT ![Cur(w).intent].status = "PAID"]
  /\ statusLog' = Append(statusLog, Written(Cur(w).intent, "PAID", Cur(w).tx))
  /\ cycles' = [cycles EXCEPT ![w] = Advance(w)]
  /\ UNCHANGED <<chainLen, depositTxs, lastCheckedLt, ops>>
  /\ UNCHANGED nonWorker

\* saveLastCheckedLt(latestLt)
CycleSave(w) ==
  /\ cycles[w].pc = "save"
  /\ lastCheckedLt' = cycles[w].latestLt
  /\ cycles' = [cycles EXCEPT ![w] = IdleCycle]
  /\ UNCHANGED <<chainLen, depositTxs, intents, statusLog, ops>>
  /\ UNCHANGED nonWorker

\* the process stops and is started again: the runs in flight are lost
Crash ==
  /\ Request
  /\ \E w \in ProcIds : cycles[w].pc # "idle"
  /\ cycles' = [w \in ProcIds |-> IdleCycle]
  /\ UNCHANGED <<chainLen, depositTxs, lastCheckedLt, intents, statusLog>>
  /\ UNCHANGED nonWorker

(***************************************************************************)
(* GameService, the round loop of sockets/game.ts and the settlement        *)
(***************************************************************************)
Rounds == 3

Max(a, b) == IF a > b THEN a ELSE b

ToSet(s) == {s[n] : n \in 1..Len(s)}

\* calculateRoundScores: the players whose press counts
ValidPress(m, p, endTime) ==
  /\ m.press[p] # NoPress
  /\ m.press[p] # 0
  /\ m.press[p] <= endTime

\* calculateRoundScores: position after the stable sort by endTime - pressTime
Position(m, p, endTime) ==
  1 + Cardinality({n \in 1..Len(m.players) :
        /\ ValidPress(m, m.players[n], endTime)
        /\ \/ m.press[m.players[n]] > m.press[p]
           \/ /\ m.press[m.players[n]] = m.press[p]
              /\ n < IndexOfPlayer(m.players, p)})

\* calculateRoundScores: the score of player p for the round
RoundScore(m, p, endTime) ==
  IF ValidPress(m, p, endTime)
  THEN Max(1, 10 - Position(m, p, endTime))
  ELSE 0

\* allPlayers if present, the current players otherwise
PlayersToUpdate(m) == IF Len(m.allPlayers) > 0 THEN m.allPlayers ELSE m.players

\* determineWinners: the players with the highest score
DetermineWinners(m) ==
  {p \in ToSet(PlayersToUpdate(m)) :
     \A q \in ToSet(PlayersToUpdate(m)) : m.score[q] <= m.score[p]}

NoStats == [totalGames |-> 0, totalWins |-> 0, totalScore |-> 0, bestScore |-> 0]

IdleSettle ==
  [pc |-> "idle", match |-> NoMatch, direct |-> FALSE, todo |-> {},
   winners |-> {}, score |-> [p \in Players |-> 0], payout |-> 0]

FreeSettle(k) ==
  /\ settles[k].pc = "idle"
  /\ \A d \in 1..(k - 1) : settles[d].pc # "idle"

StartTimer(id) == [kind |-> "start", match |-> id]

EndTimer(id) == [kind |-> "end", match |-> id]

\* setTimeout: one more pending callback
SetTimeout(tms, tm) == tms (+) SetToBag({tm})

\* one pending callback tm, if any, ran
Fired(tms, tm) == tms (-) SetToBag({tm})

\* startRound with no test of the status
StartRoundAnyStatus(m, endTime) ==
  IF m.currentRound + 1 > Rounds
  THEN [ok |-> FALSE, match |-> m]
  ELSE [ok |-> TRUE,
        match |-> [m EXCEPT !.press = [p \in Players |-> NoPress],
                            !.currentRound = m.currentRound + 1,
                            !.roundEndTime = endTime]]

\* gameService.startRound(match) with generateEndTime() = endTime: the match
\* it leaves behind, and whether it returned (ok) or threw
StartRound(m, endTime) ==
  IF m.status # "playing" \/ m.currentRound + 1 > Rounds
  THEN [ok |-> FALSE, match |-> m]
  ELSE [ok |-> TRUE,
        match |-> [m EXCEPT !.press = [p \in Players |-> NoPress],
                            !.currentRound = m.currentRound + 1,
                            !.roundEndTime = endTime]]

\* io.to(matchId).emit of round:started or round:ended for round number round
RoundEvent(name, id, round) ==
  [name |-> name, match |-> id, to |-> 0, round |-> round]

\* startRoundForMatch, run by a timer: refused unless the match is playing;
\* gameService.startRound throws after the last round
StartRoundForMatch(id, endTime) ==
  /\ BagIn(StartTimer(id), timers)
  /\ IF /\ Has(activeMatches, id)
        /\ Get(activeMatches, id).status = "playing"
        /\ StartRound(Get(activeMatches, id), endTime).ok
     THEN /\ activeMatches' = Put(activeMatches,
                StartRound(Get(activeMatches, id), endTime).match)
          /\ events' = events \cup
                {RoundEvent("round:started", id,
                            Get(activeMatches, id).currentRound + 1)}
          /\ timers' = SetTimeout(Fired(timers, StartTimer(id)), EndTimer(id))
     ELSE /\ timers' = Fired(timers, StartTimer(id))
          /\ UNCHANGED <<activeMatches, events>>
  /\ UNCHANGED <<dbMatches, ops, stats, payments, settles, settleLog>>
  /\ UNCHANGED nonRound

\* the round:press handler and gameService.recordPress; t is
\* Date.now() - roundStartTime
RecordPress(p, t) ==
  /\ HasMatchByPlayerId(p)
  /\ LET m == Get(activeMatches, playerToMatch[p])
     IN /\ m.status = "playing"
        /\ m.roundEndTime # 0
        /\ Contains(m.players, p)
        /\ m.press[p] = NoPress
        /\ activeMatches' = Put(activeMatches, [m EXCEPT !.press[p] = t])
  /\ UNCHANGED <<dbMatches, ops, timers, stats, payments, settles, settleLog>>
  /\ UNCHANGED nonGame

\* an emitted event that carries the match object: press is the pressTime
\* of every player as the receiver sees it in match.players
EmittedMatch(name, m, to) ==
  [name |-> name, match |-> m.id, to |-> to, round |-> m.currentRound,
   press |-> m.press]

\* the round:press handler as a whole, on the registered socket of player p
\* at t = Date.now() - roundStartTime: the error replies, gameService
\* .recordPress (a thrown error is caught and answered with an error), and
\* round:playerPressed with the match to the pressing socket
RoundPressOverwrite(p, t) ==
  /\ Request
  /\ IF ~HasMatchByPlayerId(p)
     THEN /\ events' = events \cup {[name |-> "error", match |-> NoMatch, to |-> p]}
          /\ UNCHANGED activeMatches
     ELSE LET m == Get(activeMatches, playerToMatch[p])
          IN IF m.status # "playing" \/ m.roundEndTime = 0
                \/ ~Contains(m.players, p)
             THEN /\ events' = events \cup
                       {[name |-> "error", match |-> m.id, to |-> p]}
                  /\ UNCHANGED activeMatches
             ELSE LET pressed == [m EXCEPT !.press[p] = t]
                  IN /\ activeMatches' = Put(activeMatches, pressed)
                     /\ events' = events \cup
                          {EmittedMatch("round:playerPressed", pressed, p)}
  /\ UNCHANGED <<dbMatches, timers, stats, payments, settles, settleLog>>
  /\ UNCHANGED <<playerToMatch, pendingDeletes, nextMatchId, calls, intentVars,
                 fired, workerVars, joins>>
  /\ UNCHANGED <<calc, socketToPlayer>>

\* the round:press handler as a whole, on the registered socket of player p
\* at t = Date.now() - roundStartTime: the error replies, gameService
\* .recordPress (a thrown error is caught and answered with an error), and
\* round:playerPressed with the match to the pressing socket
RoundPress(p, t) ==
  /\ Request
  /\ IF ~HasMatchByPlayerId(p)
     THEN /\ events' = events \cup {[name |-> "error", match |-> NoMatch, to |-> p]}
          /\ UNCHANGED activeMatches
     ELSE LET m == Get(activeMatches, playerToMatch[p])
          IN IF m.status # "playing" \/ m.roundEndTime = 0
                \/ ~Contains(m.players, p)
             THEN /\ events' = events \cup
                       {[name |-> "error", match |-> m.id, to |-> p]}
                  /\ UNCHANGED activeMatches
             ELSE LET pressed == IF m.press[p] # NoPress THEN m
                                 ELSE [m EXCEPT !.press[p] = t]
                  IN /\ activeMatches' = Put(activeMatches, pressed)
                     /\ events' = events \cup
                          {EmittedMatch("round:playerPressed", pressed, p)}
  /\ UNCHANGED <<dbMatches, timers, stats, payments, settles, settleLog>>
  /\ UNCHANGED <<playerToMatch, pendingDeletes, nextMatchId, calls, intentVars,
                 fired, workerVars, joins>>
  /\ UNCHANGED <<calc, socketToPlayer>>

RoundStartedAny(m) == TRUE

\* gameService.endRound: the round must have been started
RoundStarted(m) == m.roundEndTime # 0

\* endRound finishing the match one round early
EndRoundEarly(m) ==
  [m EXCEPT !.score = [p \in Players |->
                         IF Contains(m.players, p)
                         THEN m.score[p] + RoundScore(m, p, m.roundEndTime)
                         ELSE m.score[p]],
            !.roundResults = Append(m.roundResults, m.currentRound),
            !.roundEndTime = 0,
            !.status = IF m.currentRound >= Rounds - 1 THEN "finished" ELSE m.status,
            !.finishedAt = m.finishedAt \/ m.currentRound >= Rounds - 1]

\* gameService.endRound on match m
EndRound(m) ==
  [m EXCEPT !.score = [p \in Players |->
                         IF Contains(m.players, p)
                         THEN m.score[p] + RoundScore(m, p, m.roundEndTime)
                         ELSE m.score[p]],
            !.roundResults = Append(m.roundResults, m.currentRound),
            !.roundEndTime = 0,
            !.status = IF m.currentRound >= Rounds THEN "finished" ELSE m.status,
            !.finishedAt = m.finishedAt \/ m.currentRound >= Rounds]

\* endRoundForMatch with an endRound that does not ask for a started round
EndRoundBodyUnchecked(k, id) ==
  IF Has(activeMatches, id)
  THEN LET m == EndRound(Get(activeMatches, id))
       IN /\ activeMatches' = Put(activeMatches, m)
          /\ events' = events \cup {RoundEvent("round:ended", id, m.currentRound)}
          /\ IF m.status = "finished" /\ ~m.statsUpdated
             THEN /\ FreeSettle(k)
                  /\ settles' = [settles EXCEPT ![k] =
                       [pc |-> "stats", match |-> id, direct |-> FALSE,
                        todo |-> ToSet(PlayersToUpdate(m)),
                        winners |-> DetermineWinners(m), score |-> m.score,
                        payout |-> 0]]
                  /\ timers' = Fired(timers, EndTimer(id))
             ELSE /\ timers' = SetTimeout(Fired(timers, EndTimer(id)), StartTimer(id))
                  /\ UNCHANGED settles
  ELSE /\ timers' = Fired(timers, EndTimer(id))
       /\ UNCHANGED <<activeMatches, settles, events>>

\* endRoundForMatch up to its first await: endRound, then round:ended and
\* either the start of the settlement (stats updates issued) or the timer of
\* the next round; nothing when there is no match or endRound throws
EndRoundBody(k, id) ==
  IF Has(activeMatches, id) /\ RoundStarted(Get(activeMatches, id))
  THEN LET m == EndRound(Get(activeMatches, id))
       IN /\ activeMatches' = Put(activeMatches, m)
          /\ events' = events \cup {RoundEvent("round:ended", id, m.currentRound)}
          /\ IF m.status = "finished" /\ ~m.statsUpdated
             THEN /\ FreeSettle(k)
                  /\ settles' = [settles EXCEPT ![k] =
                       [pc |-> "stats", match |-> id, direct |-> FALSE,
                        todo |-> ToSet(PlayersToUpdate(m)),
                        winners |-> DetermineWinners(m), score |-> m.score,
                        payout |-> 0]]
                  /\ timers' = Fired(timers, EndTimer(id))
             ELSE /\ timers' = SetTimeout(Fired(timers, EndTimer(id)), StartTimer(id))
                  /\ UNCHANGED settles
  ELSE /\ timers' = Fired(timers, EndTimer(id))
       /\ UNCHANGED <<activeMatches, settles, events>>

\* endRoundForMatch run by the timer that startRoundForMatch scheduled
EndRoundTimer(k, id) ==
  /\ BagIn(EndTimer(id), timers)
  /\ EndRoundBody(k, id)
  /\ UNCHANGED <<dbMatches, ops, stats, payments, settleLog>>
  /\ UNCHANGED nonRound

\* endRoundForMatch triggered once more, at any time
EndRoundAgain(k, id) ==
  /\ Request
  /\ ~BagIn(EndTimer(id), timers)
  /\ EndRoundBody(k, id)
  /\ UNCHANGED <<dbMatches, stats, payments, settleLog>>
  /\ UNCHANGED nonRound

\* playerStatsService.updateStats for one player of the settlement
UpdateStats(k, p) ==
  /\ settles[k].pc = "stats"
  /\ p \in settles[k].todo
  /\ stats' = [stats EXCEPT ![p] =
        [totalGames |-> stats[p].totalGames + 1,
         totalWins |-> stats[p].totalWins
                         + (IF p \in settles[k].winners THEN 1 ELSE 0),
         totalScore |-> stats[p].totalScore + settles[k].score[p],
         bestScore |-> Max(0, settles[k].score[p])]]
  /\ settles' = [settles EXCEPT ![k].todo = settles[k].todo \ {p}]
  /\ UNCHANGED <<activeMatches, dbMatches, ops, timers, payments, settleLog>>
  /\ UNCHANGED nonGame

\* all stats updates returned: paid rooms go on to processMatchCompletion
StatsDone(k) ==
  /\ settles[k].pc = "stats"
  /\ settles[k].todo = {}
  /\ settles' = [settles EXCEPT ![k].pc =
        IF Has(activeMatches, settles[k].match)
           /\ Get(activeMatches, settles[k].match).roomType # "free"
        THEN "payfind"
        ELSE "flag"]
  /\ UNCHANGED <<activeMatches, dbMatches, ops, timers, stats, payments,
                 settleLog>>
  /\ UNCHANGED nonGame

PayoutRows(id) == {r \in 1..Len(payments) : payments[r].matchId = id}

\* ROOM_PRESETS: entryFee (in nanotons) and platformFee (in percent) of a room
EntryFee(rt) == IF rt = "ton" THEN EntryFeeNano ELSE 0

PlatformFee(rt) == IF rt = "ton" THEN 10 ELSE 0

\* a payout that keeps no platform fee
CalculatePayoutNoFee(totalBank, platformFee, winnersCount) ==
  totalBank \div winnersCount

\* calculatePayout: totalBank * (1 - platformFee / 100) / winnersCount, on
\* nanotons; the division by 100 comes first to stay within 32 bits
CalculatePayout(totalBank, platformFee, winnersCount) ==
  ((totalBank \div 100) * (100 - platformFee)) \div winnersCount

\* const totalBank = preset.entryFee * playersToCheck.length
TotalBank(m) == EntryFee(m.roomType) * Len(PlayersToUpdate(m))

\* getMatchPayment(id) is not null: payouts exist and the match row is found
HasMatchPayment(id) == PayoutRows(id) # {} /\ Has(dbMatches, id)

\* a second call of processMatchCompletion, made after the settlement of the
\* finished match is through
ProcessMatchCompletion(k, id) ==
  /\ Request
  /\ FreeSettle(k)
  /\ \A d \in ProcIds : settles[d].pc = "idle"
  /\ Has(activeMatches, id)
  /\ Get(activeMatches, id).status = "finished"
  /\ Get(activeMatches, id).statsUpdated
  /\ settles' = [settles EXCEPT ![k] =
        [IdleSettle EXCEPT !.pc = "payfind", !.match = id, !.direct = TRUE]]
  /\ UNCHANGED <<activeMatches, dbMatches, timers, stats, payments, settleLog>>
  /\ UNCHANGED nonGame

\* processMatchCompletion(match) called on a match in any status, one call at a
\* time
CompletionCall(k, id) ==
  /\ Request
  /\ \A d \in ProcIds : settles[d].pc = "idle"
  /\ \A d \in ProcIds : d < k => settles[d].pc # "idle"
  /\ Has(activeMatches, id)
  /\ settles' = [settles EXCEPT ![k] =
        [IdleSettle EXCEPT !.pc = "payfind", !.match = id, !.direct = TRUE]]
  /\ UNCHANGED <<activeMatches, dbMatches, timers, stats, payments, settleLog>>
  /\ UNCHANGED nonGame

\* processMatchCompletion returned or threw: the settlement goes on, a direct
\* call ends
AfterPayout(k) ==
  IF settles[k].direct THEN IdleSettle ELSE [settles[k] EXCEPT !.pc = "flag"]

\* processMatchCompletion: the search for payouts of the match; existing
\* payouts are returned, otherwise one payment per winner is issued
PayoutFind(k) ==
  /\ settles[k].pc = "payfind"
  /\ LET id == settles[k].match
     IN IF ~Has(activeMatches, id) \/ Get(activeMatches, id).status # "finished"
        THEN /\ settles' = [settles EXCEPT ![k] = AfterPayout(k)]
             /\ UNCHANGED settleLog
        ELSE IF HasMatchPayment(id)
        THEN /\ settles' = [settles EXCEPT ![k] = AfterPayout(k)]
             /\ settleLog' = Append(settleLog,
                   [op |-> "payout", match |-> id, existing |-> TRUE])
        ELSE /\ settles' = [settles EXCEPT ![k].pc = "paycreate",
                   ![k].todo = DetermineWinners(Get(activeMatches, id)),
                   ![k].payout =
                      CalculatePayout(
                        TotalBank(Get(activeMatches, id)),
                        PlatformFee(Get(activeMatches, id).roomType),
                        Cardinality(DetermineWinners(Get(activeMatches, id))))]
             /\ UNCHANGED settleLog
  /\ UNCHANGED <<activeMatches, dbMatches, ops, timers, stats, payments>>
  /\ UNCHANGED nonGame

\* processMatchCompletion: prisma.payment.create for one winner; matchId
\* references matches, a missing row makes the create throw
PaymentCreate(k, p) ==
  /\ settles[k].pc = "paycreate"
  /\ p \in settles[k].todo
  /\ payments' =
        IF Has(dbMatches, settles[k].match)
        THEN Append(payments, [matchId |-> settles[k].match, playerId |-> p,
                               amount |-> settles[k].payout])
        ELSE payments
  /\ settles' = [settles EXCEPT ![k].todo = settles[k].todo \ {p}]
  /\ UNCHANGED <<activeMatches, dbMatches, ops, timers, stats, settleLog>>
  /\ UNCHANGED nonGame

\* processMatchCompletion: all creates settled, the payment data is returned
PayoutDone(k) ==
  /\ settles[k].pc = "paycreate"
  /\ settles[k].todo = {}
  /\ settles' = [settles EXCEPT ![k] = AfterPayout(k)]
  /\ settleLog' = Append(settleLog,
        [op |-> "payout", match |-> settles[k].match, existing |-> FALSE])
  /\ UNCHANGED <<activeMatches, dbMatches, ops, timers, stats, payments>>
  /\ UNCHANGED nonGame

\* endRoundForMatch: match.statsUpdated = true, then finishMatch is called
SetStatsUpdated(k) ==
  /\ settles[k].pc = "flag"
  /\ activeMatches' =
        IF Has(activeMatches, settles[k].match)
        THEN Put(activeMatches,
               [Get(activeMatches, settles[k].match) EXCEPT !.statsUpdated = TRUE])
        ELSE activeMatches
  /\ settles' = [settles EXCEPT ![k].pc = "finish"]
  /\ UNCHANGED <<dbMatches, ops, timers, stats, payments, settleLog>>
  /\ UNCHANGED nonGame

\* matchService.finishMatch: the row is updated to finished; a missing row
\* throws, which finishMatch swallows; endRoundForMatch then emits
\* match:finished to the room of the match
FinishMatch(k) ==
  /\ settles[k].pc = "finish"
  /\ LET id == settles[k].match
     IN IF Has(dbMatches, id)
        THEN /\ dbMatches' = Put(dbMatches,
                  [Get(dbMatches, id) EXCEPT !.status = "finished"])
             /\ settleLog' = Append(settleLog,
                  [op |-> "finish", match |-> id, existing |-> FALSE])
        ELSE UNCHANGED <<dbMatches, settleLog>>
  /\ settles' = [settles EXCEPT ![k] = IdleSettle]
  /\ events' = events \cup {RoundEvent("match:finished", settles[k].match, 0)}
  /\ UNCHANGED <<activeMatches, ops, timers, stats, payments>>
  /\ UNCHANGED nonRound

(***************************************************************************)
(* The match:join socket handler (sockets/matchmaking.ts)                  *)
(***************************************************************************)
IdleJoin == [pc |-> "idle", player |-> 0, roomType |-> "none", match |-> NoMatch]

\* the findOrCreateMatch invocation of handler j reports to owner JoinOwner(j)
JoinOwner(j) == NumProcs + j

\* an emitted socket event: to is the receiving player, 0 is the match room
Emitted(name, id, to) == [name |-> name, match |-> id, to |-> to]

\* Matchmaker.isMatchReady
IsMatchReady(id) ==
  /\ Has(activeMatches, id)
  /\ Get(activeMatches, id).status = "waiting"
  /\ Len(Get(activeMatches, id).players) >= maxPlayers

\* match:join up to its first await: the already-in-a-match check, then the
\* paid-intent lookup of a ton room or findOrCreateMatch of a pooled room
MatchJoinBegin(j, c, p, rt) ==
  /\ Request
  /\ joins[j].pc = "idle"
  /\ \A d \in 1..(j - 1) : joins[d].pc # "idle"
  /\ IF HasMatchByPlayerId(p)
     THEN /\ events' = events \cup
                {Emitted("match:alreadyJoined", playerToMatch[p], p)}
          /\ UNCHANGED <<joins, activeMatches, playerToMatch, dbMatches,
                         pendingDeletes, nextMatchId, calls>>
     ELSE IF rt = "ton"
     THEN /\ joins' = [joins EXCEPT ![j] =
                [IdleJoin EXCEPT !.pc = "intent", !.player = p, !.roomType = rt]]
          /\ UNCHANGED <<events, activeMatches, playerToMatch, dbMatches,
                         pendingDeletes, nextMatchId, calls>>
     ELSE /\ FindOrCreateEnter(c, p, rt, JoinOwner(j))
          /\ joins' = [joins EXCEPT ![j] =
                [IdleJoin EXCEPT !.pc = "find", !.player = p, !.roomType = rt]]
          /\ UNCHANGED events
  /\ UNCHANGED <<intentVars, fired, workerVars, gameVars>>
  /\ UNCHANGED <<calc, socketToPlayer>>

\* Matchmaker.addSocketToMatch(id, socket of p, p): the new socketToPlayer
AddSocketToMatch(id, p) ==
  IF Has(activeMatches, id)
  THEN [socketToPlayer EXCEPT ![p] = p]
  ELSE socketToPlayer

\* prisma.joinIntent.findFirst({playerId, roomType:'ton', status:'PAID'},
\* orderBy paidAt desc): the intent id, NoIntent if none
LatestPaidIntent(p) ==
  LET paid == {i \in 1..Len(intents) :
                 intents[i].player = p /\ intents[i].status = "PAID"}
  IN IF paid = {} THEN NoIntent
     ELSE CHOOSE i \in paid : \A k \in paid : PaidAt(k) <= PaidAt(i)

\* match:join of a ton room: the answer of the paid-intent lookup
MatchJoinIntent(j) ==
  /\ joins[j].pc = "intent"
  /\ LET i == LatestPaidIntent(joins[j].player)
     IN IF i = NoIntent \/ intents[i].match = NoMatch
        THEN /\ joins' = [joins EXCEPT ![j] = IdleJoin]
             /\ events' = events \cup {Emitted("error", NoMatch, joins[j].player)}
        ELSE /\ joins' = [joins EXCEPT ![j].pc = "paid",
                                        ![j].match = intents[i].match]
             /\ UNCHANGED events
  /\ UNCHANGED <<mmVars, intentVars, fired, workerVars, gameVars>>
  /\ UNCHANGED <<calc, socketToPlayer>>

\* getPaidIntentForJoin(playerId, matchId, 'ton') is not null
HasPaidIntentForJoin(p, id) ==
  \E i \in 1..Len(intents) :
     /\ intents[i].player = p
     /\ intents[i].status = "PAID"
     /\ intents[i].match = id

\* match:join of a ton room after getPaidIntentForJoin: the match named by
\* the intent is taken from memory, the player is pushed to its roster
\* unless present, then saveMatch is called.  For a match that is not in
\* memory the handler calls matchmaker.restoreMatchById, which the Matchmaker
\* source does not define; that branch is answered with the error here and
\* is reached from no state that is explored
MatchJoinPaid(j) ==
  /\ joins[j].pc = "paid"
  /\ LET p == joins[j].player
         id == joins[j].match
     IN IF ~HasPaidIntentForJoin(p, id) \/ ~Has(activeMatches, id)
        THEN /\ joins' = [joins EXCEPT ![j] = IdleJoin]
             /\ events' = events \cup {Emitted("error", NoMatch, p)}
             /\ UNCHANGED <<activeMatches, dbMatches, socketToPlayer>>
        ELSE LET m == Get(activeMatches, id)
                 pushed == IF Contains(m.players, p) THEN m
                           ELSE [m EXCEPT !.players = Append(m.players, p),
                                          !.allPlayers =
                                             IF Contains(m.allPlayers, p)
                                             THEN m.allPlayers
                                             ELSE Append(m.allPlayers, p)]
             IN /\ activeMatches' = Put(activeMatches, pushed)
                /\ socketToPlayer' = AddSocketToMatch(id, p)
                /\ dbMatches' = Put(dbMatches, SavedRow(pushed))
                /\ joins' = [joins EXCEPT ![j].pc = "ready"]
                /\ UNCHANGED events
  /\ UNCHANGED <<playerToMatch, pendingDeletes, nextMatchId, calls, ops>>
  /\ UNCHANGED <<intentVars, fired, workerVars, gameVars>>
  /\ UNCHANGED calc

\* match:join of a pooled room: findOrCreateMatch returned;
\* addSocketToMatch, then saveMatch(match)
MatchJoinFound(j, c) ==
  /\ joins[j].pc = "find"
  /\ calls[c].pc = "done" /\ calls[c].owner = JoinOwner(j)
  /\ dbMatches' =
        IF Has(activeMatches, calls[c].result)
        THEN Put(dbMatches, SavedRow(Get(activeMatches, calls[c].result)))
        ELSE dbMatches
  /\ calls' = [calls EXCEPT ![c] = IdleCall]
  /\ joins' = [joins EXCEPT ![j].pc = "ready", ![j].match = calls[c].result]
  /\ socketToPlayer' = AddSocketToMatch(calls[c].result, joins[j].player)
  /\ UNCHANGED <<activeMatches, playerToMatch, pendingDeletes, nextMatchId,
                 ops, events>>
  /\ UNCHANGED <<intentVars, fired, workerVars, gameVars>>
  /\ UNCHANGED calc

\* match:join after saveMatch: isMatchReady, startMatch and the save of the
\* started match, or else the notifications of a join that starts nothing
MatchJoinReady(j) ==
  /\ joins[j].pc = "ready"
  /\ LET id == joins[j].match
         p == joins[j].player
     IN IF IsMatchReady(id) /\ ~(Len(Get(activeMatches, id).players) < 2)
        THEN LET m == [Get(activeMatches, id) EXCEPT !.status = "playing"]
             IN /\ activeMatches' = Put(activeMatches, m)
                /\ dbMatches' = Put(dbMatches, SavedRow(m))
                /\ joins' = [joins EXCEPT ![j].pc = "started"]
                /\ UNCHANGED events
        ELSE /\ joins' = [joins EXCEPT ![j] = IdleJoin]
             /\ events' = events \cup {Emitted("match:joined", id, p),
                                       Emitted("match:playerJoined", id, 0)}
             /\ UNCHANGED <<activeMatches, dbMatches>>
  /\ UNCHANGED <<playerToMatch, pendingDeletes, nextMatchId, calls, ops>>
  /\ UNCHANGED <<intentVars, fired, workerVars, gameVars>>
  /\ UNCHANGED <<calc, socketToPlayer>>

\* match:join after the save of the started match: the notifications,
\* match:started to the match room and the timer of the first round
MatchJoinStarted(j) ==
  /\ joins[j].pc = "started"
  /\ LET id == joins[j].match
         p == joins[j].player
     IN /\ events' = events \cup {Emitted("match:joined", id, p),
                                  Emitted("match:playerJoined", id, 0),
                                  Emitted("match:started", id, 0)}
        /\ timers' = SetTimeout(timers, StartTimer(id))
  /\ joins' = [joins EXCEPT ![j] = IdleJoin]
  /\ UNCHANGED <<mmVars, intentVars, fired, workerVars>>
  /\ UNCHANGED <<stats, payments, settles, settleLog>>
  /\ UNCHANGED <<calc, socketToPlayer>>

(***************************************************************************)
(* The match:leave and disconnect socket handlers (sockets/matchmaking.ts) *)
(***************************************************************************)
\* a removePlayer that filters allPlayers as well
RemovedFromAll(p) ==
  IF ~HasMatchByPlayerId(p)
  THEN [tbl |-> activeMatches, dels |-> pendingDeletes, p2m |-> playerToMatch]
  ELSE LET id == playerToMatch[p]
           m == Get(activeMatches, id)
           rest == Without(m.players, p)
       IN [tbl |-> IF Len(rest) = 0 THEN Del(activeMatches, id)
                   ELSE Put(activeMatches,
                            [m EXCEPT !.players = rest,
                                      !.allPlayers = Without(m.allPlayers, p)]),
           dels |-> IF Len(rest) = 0 /\ m.status = "waiting"
                    THEN pendingDeletes \cup {id} ELSE pendingDeletes,
           p2m |-> [playerToMatch EXCEPT ![p] = NoMatch]]

\* Matchmaker.removePlayer(p) on the current state: the new table, the new
\* pending deletes and the new playerToMatch
Removed(p) ==
  IF ~HasMatchByPlayerId(p)
  THEN [tbl |-> activeMatches, dels |-> pendingDeletes, p2m |-> playerToMatch]
  ELSE LET id == playerToMatch[p]
           m == Get(activeMatches, id)
           rest == Without(m.players, p)
       IN [tbl |-> IF Len(rest) = 0 THEN Del(activeMatches, id)
                   ELSE Put(activeMatches, [m EXCEPT !.players = rest]),
           dels |-> IF Len(rest) = 0 /\ m.status = "waiting"
                    THEN pendingDeletes \cup {id} ELSE pendingDeletes,
           p2m |-> [playerToMatch EXCEPT ![p] = NoMatch]]

\* Matchmaker.removeSocketFromMatch(id, socket of p) on the table tbl that
\* removePlayer left: the new socketToPlayer
RemoveSocketFromMatch(tbl, id, p) ==
  IF Has(tbl, id)
  THEN [socketToPlayer EXCEPT ![p] = NoPlayer]
  ELSE socketToPlayer

\* a createRefundForPlayer(p, m) call is in flight
RefundInFlight(p, m) ==
  \E k \in ProcIds :
     procs[k].op = "refund" /\ procs[k].p = p /\ procs[k].m = m

\* match:leave (or disconnect) of the registered socket of player p, up to
\* its first await: a ton match that is waiting goes to createRefundForPlayer,
\* any other match to removePlayer and the notifications at once
MatchLeave(j, p) ==
  /\ Request
  /\ joins[j].pc = "idle"
  /\ \A d \in 1..(j - 1) : joins[d].pc # "idle"
  /\ socketToPlayer[p] = p
  /\ HasMatchByPlayerId(p)
  /\ LET m == Get(activeMatches, playerToMatch[p])
     IN IF m.roomType = "ton" /\ m.status = "waiting"
        THEN /\ joins' = [joins EXCEPT ![j] =
                   [IdleJoin EXCEPT !.pc = "refund", !.player = p,
                                    !.roomType = m.roomType, !.match = m.id]]
             /\ UNCHANGED <<activeMatches, pendingDeletes, playerToMatch, events,
                            socketToPlayer>>
        ELSE /\ activeMatches' = Removed(p).tbl
             /\ pendingDeletes' = Removed(p).dels
             /\ playerToMatch' = Removed(p).p2m
             /\ socketToPlayer' = RemoveSocketFromMatch(Removed(p).tbl, m.id, p)
             /\ events' = events \cup {Emitted("match:left", m.id, p)}
             /\ UNCHANGED joins
  /\ UNCHANGED <<dbMatches, nextMatchId, calls>>
  /\ UNCHANGED <<intentVars, fired, workerVars, gameVars>>
  /\ UNCHANGED calc

\* match:leave: createRefundForPlayer is entered, its getIntentForMatch runs
LeaveRefundFind(j, k) ==
  /\ joins[j].pc = "refund"
  /\ FreeSlot(k)
  /\ LET p == joins[j].player
         m == joins[j].match
         i == GetIntentForMatch(p, m)
     IN IF i = NoIntent
        THEN /\ returns' = Append(returns,
                   [op |-> "refund", p |-> p, m |-> m, id |-> NoIntent])
             /\ UNCHANGED procs
        ELSE /\ procs' = [procs EXCEPT ![k] =
                   [IdleProc EXCEPT !.op = "refund", !.pc = "existing",
                                    !.i = i, !.p = p, !.m = m]]
             /\ UNCHANGED returns
  /\ joins' = [joins EXCEPT ![j].pc = "leaving"]
  /\ UNCHANGED <<intents, refunds, statusLog, events>>
  /\ UNCHANGED <<mmVars, fired, workerVars, gameVars>>
  /\ UNCHANGED <<calc, socketToPlayer>>

\* match:leave after createRefundForPlayer returned or threw: removePlayer,
\* removeSocketFromMatch and the notifications
LeaveDone(j) ==
  /\ joins[j].pc = "leaving"
  /\ ~RefundInFlight(joins[j].player, joins[j].match)
  /\ activeMatches' = Removed(joins[j].player).tbl
  /\ pendingDeletes' = Removed(joins[j].player).dels
  /\ playerToMatch' = Removed(joins[j].player).p2m
  /\ socketToPlayer' =
        RemoveSocketFromMatch(Removed(joins[j].player).tbl, joins[j].match,
                              joins[j].player)
  /\ events' = events \cup {Emitted("match:left", joins[j].match, joins[j].player)}
  /\ joins' = [joins EXCEPT ![j] = IdleJoin]
  /\ UNCHANGED <<dbMatches, nextMatchId, calls, ops>>
  /\ UNCHANGED <<intentVars, fired, workerVars, gameVars>>
  /\ UNCHANGED calc

(***************************************************************************)
(* Specifications                                                          *)
(***************************************************************************)
MMInit ==
  /\ activeMatches = <<>>
  /\ playerToMatch = [p \in Players |-> NoMatch]
  /\ dbMatches = <<>>
  /\ pendingDeletes = {}
  /\ nextMatchId = 1
  /\ calls = [c \in CallIds |-> IdleCall]
  /\ ops = 0

\* no round loop, no settlement and no socket handler has run
IdleInit ==
  /\ timers = EmptyBag
  /\ stats = [p \in Players |-> NoStats]
  /\ payments = <<>>
  /\ settles = [k \in ProcIds |-> IdleSettle]
  /\ settleLog = <<>>
  /\ joins = [j \in CallIds |-> IdleJoin]
  /\ events = {}

GameInit == IdleInit /\ calc = NoCalc /\ socketToPlayer = Sockets({})

WorkerInit ==
  /\ feed = Catalog
  /\ chainLen = 0
  /\ depositTxs = <<>>
  /\ lastCheckedLt = 0
  /\ cycles = [w \in ProcIds |-> IdleCycle]

IntentInitEmpty ==
  /\ intents = <<>>
  /\ refunds = <<>>
  /\ statusLog = <<>>
  /\ procs = [k \in ProcIds |-> IdleProc]
  /\ returns = <<>>

Init ==
  /\ MMInit
  /\ fired = {}
  /\ IntentInitEmpty
  /\ WorkerInit
  /\ GameInit

\* Matchmaker operations called in any interleaving
Next ==
  \/ \E c \in CallIds, p \in Players, rt \in RoomTypes : FindOrCreateMatch(c, p, rt)
  \/ \E c \in CallIds : DbLookup(c)
  \/ \E c \in CallIds : FindOrCreateResume(c)
  \/ \E id \in MatchIds : StartMatch(id)
  \/ \E p \in Players : RemovePlayer(p)
  \/ \E id \in MatchIds : DbDelete(id)
  \/ \E id \in MatchIds : SaveMatch(id)

Spec == Init /\ [][Next]_vars

\* joins arrive only through the match:join socket handler
NextSockets ==
  \/ \E c \in CallIds, p \in Players, rt \in RoomTypes : MatchJoin(c, p, rt)
  \/ \E c \in CallIds : DbLookup(c)
  \/ \E c \in CallIds : FindOrCreateResume(c)
  \/ \E id \in MatchIds : StartMatch(id)
  \/ \E p \in Players : RemovePlayer(p)
  \/ \E id \in MatchIds : DbDelete(id)
  \/ \E id \in MatchIds : SaveMatch(id)

SpecSockets == Init /\ [][NextSockets]_vars

\* one findOrCreateMatch call per player against an empty pool, nothing else
NextBurst ==
  \/ \E c \in CallIds, p \in Players : BurstFire(c, p)
  \/ \E c \in CallIds : DbLookup(c)
  \/ \E c \in CallIds : FindOrCreateResume(c)

SpecBurst == Init /\ [][NextBurst]_vars

\* the lobby: match:join handlers and createJoinIntent calls in any
\* interleaving, and the timer of the first round
NextLobby ==
  \/ \E j \in CallIds, c \in CallIds, p \in Players, rt \in RoomTypes :
        ops < MaxJoins /\ MatchJoinBegin(j, c, p, rt)
  \/ \E j \in CallIds : MatchJoinIntent(j)
  \/ \E j \in CallIds, c \in CallIds : MatchJoinFound(j, c)
  \/ \E j \in CallIds : MatchJoinReady(j)
  \/ \E j \in CallIds : MatchJoinStarted(j)
  \/ \E c \in CallIds : DbLookup(c)
  \/ \E c \in CallIds : FindOrCreateResume(c)
  \/ \E k \in ProcIds, p \in Players :
        ops < MaxJoins /\ CreateIntentFind(k, p)
  \/ \E k \in ProcIds, c \in CallIds : CreateIntentMatch(k, c)
  \/ \E k \in ProcIds, c \in CallIds : CreateIntentSave(k, c)
  \/ \E k \in ProcIds : CreateIntentInsert(k)
  \/ \E id \in MatchIds, t \in 1..MaxTime : StartRoundForMatch(id, t)

SpecLobby == Init /\ [][NextLobby]_vars

\* every awaited promise settles and every timer fires: the continuation of
\* a suspended handler is eventually run; requests arrive or not
Continue ==
  \/ \E j \in CallIds : MatchJoinIntent(j)
  \/ \E j \in CallIds, c \in CallIds : MatchJoinFound(j, c)
  \/ \E j \in CallIds : MatchJoinReady(j)
  \/ \E j \in CallIds : MatchJoinStarted(j)
  \/ \E c \in CallIds : DbLookup(c)
  \/ \E c \in CallIds : FindOrCreateResume(c)
  \/ \E k \in ProcIds, c \in CallIds : CreateIntentMatch(k, c)
  \/ \E k \in ProcIds, c \in CallIds : CreateIntentSave(k, c)
  \/ \E k \in ProcIds : CreateIntentInsert(k)
  \/ \E id \in MatchIds, t \in 1..MaxTime : StartRoundForMatch(id, t)

FairLobby == SpecLobby /\ WF_vars(Continue)

\* a lobby after these requests: player 1 joined free match 1 (its socket is
\* registered) and called createJoinIntent (ton match 2, intent 1); player 2
\* called createJoinIntent (match 2, intent 2); player 1 left before paying
\* (no PAID intent, so no refund; removePlayer took it off the roster of
\* match 2 and out of playerToMatch); player 3 called createJoinIntent and
\* took the free place (intent 3); the deposit of intent 1 was credited
InitRejoin ==
  /\ activeMatches =
       <<NewMatch(1, "free", "waiting", <<1>>),
         [NewMatch(2, "ton", "waiting", <<2, 3>>) EXCEPT
            !.allPlayers = <<1, 2, 3>>]>>
  /\ playerToMatch = [p \in Players |-> IF p \in {2, 3} THEN 2 ELSE NoMatch]
  /\ dbMatches =
       <<[id |-> 1, roomType |-> "free", status |-> "waiting",
          players |-> <<1>>],
         [id |-> 2, roomType |-> "ton", status |-> "waiting",
          players |-> <<1, 2, 3>>]>>
  /\ pendingDeletes = {}
  /\ nextMatchId = 3
  /\ calls = [c \in CallIds |-> IdleCall]
  /\ ops = 0
  /\ fired = {}
  /\ intents = <<[NewIntent(1, 1, 2) EXCEPT !.status = "PAID"],
                 NewIntent(2, 2, 2), NewIntent(3, 3, 2)>>
  /\ refunds = <<>>
  /\ statusLog = <<[i |-> 1, from |-> "CREATED", to |-> "PAID", tx |-> NoTx]>>
  /\ procs = [k \in ProcIds |-> IdleProc]
  /\ returns = <<>>
  /\ WorkerInit
  /\ GameInit

\* the lobby with the ton branch of match:join past its paid-intent check
NextRejoin ==
  \/ NextLobby
  \/ \E j \in CallIds : MatchJoinPaid(j)

SpecRejoin == InitRejoin /\ [][NextRejoin]_vars

\* all strings of at most n characters of the set chars
Words(chars, n) == UNION {[1..k -> chars] : k \in 0..n}

\* the characters a comment is made of: hex digits in both cases, a letter
\* that is no hex digit, the separator and the blank
CommentChars == {"1", "a", "F", "g", ":", " "}

\* on-chain room ids: decimal strings
RoomIdStrings == {<<"1">>, <<"2", "1">>, <<"9", "9", "9">>}

\* a deposit comment join:<room>:<seg> is about to be parsed
InitComment ==
  /\ MMInit
  /\ fired = {}
  /\ IntentInitEmpty
  /\ WorkerInit
  /\ IdleInit
  /\ socketToPlayer = Sockets({})
  /\ \E room \in RoomIdStrings, seg \in Words(CommentChars, NonceLen + 1) :
        calc = [fn |-> "getPaymentParams", room |-> room, nonce |-> seg]

\* getPaymentParams builds the comment of the intent and
\* extractRoomIdAndNonceFromComment parses it
ExtractComment ==
  /\ calc.fn = "getPaymentParams"
  /\ calc' = [fn |-> "extractRoomIdAndNonceFromComment",
              room |-> calc.room, nonce |-> calc.nonce,
              comment |-> PaymentComment(calc),
              out |-> ExtractRoomIdAndNonceFromComment(PaymentComment(calc))]
  /\ UNCHANGED <<mmVars, intentVars, fired, workerVars, gameVars, joins, events,
                 socketToPlayer>>

SpecComment == InitComment /\ [][ExtractComment]_vars

(***************************************************************************)
(* utils/roomId.ts                                                         *)
(***************************************************************************)
\* MASK_16 + 1: the values below it are the 16-bit values
Two16 == 65536

\* a ^ b and a | b of non-negative integers, bit by bit
RECURSIVE Xor(_, _)
Xor(a, b) ==
  IF a = 0 THEN b
  ELSE IF b = 0 THEN a
  ELSE (((a % 2) + (b % 2)) % 2) + 2 * Xor(a \div 2, b \div 2)

RECURSIVE BitOr(_, _)
BitOr(a, b) ==
  IF a = 0 THEN b
  ELSE IF b = 0 THEN a
  ELSE (IF (a % 2) + (b % 2) > 0 THEN 1 ELSE 0) + 2 * BitOr(a \div 2, b \div 2)

\* String.prototype.charCodeAt of the characters of the model's ids
CharCodeAt(c) ==
  CASE c = "0" -> 48 [] c = "1" -> 49 [] c = "9" -> 57
    [] c = "_" -> 95 [] c = "a" -> 97 [] c = "z" -> 122

\* the 32-bit value h of hash16 as its two 16-bit halves; 0x811c9dc5 and
\* 0x01000193
FnvOffset == [hi |-> 33052, lo |-> 40389]
FnvPrime == [hi |-> 256, lo |-> 403]

\* h ^= c; h = (h * 0x01000193n) & 0xffffffffn
FnvStep(h, c) ==
  LET lo == Xor(h.lo, c)
      low == lo * FnvPrime.lo
  IN [lo |-> low % Two16,
      hi |-> ((low \div Two16) + h.hi * FnvPrime.lo + lo * FnvPrime.hi) % Two16]

\* hash16(str): the loop over the characters, then h & MASK_16
RECURSIVE FnvLoop(_, _)
FnvLoop(h, str) ==
  IF Len(str) = 0 THEN h
  ELSE FnvLoop(FnvStep(h, CharCodeAt(Head(str))), Tail(str))

Hash16(str) == FnvLoop(FnvOffset, str).lo

MatchPrefix == <<"m", "a", "t", "c", "h", "_">>

DecimalDigits == {"0", "1", "2", "3", "4", "5", "6", "7", "8", "9"}

\* BigInt(m[1]) of a string of decimal digits
RECURSIVE BigIntOf(_)
BigIntOf(ds) ==
  IF Len(ds) = 0 THEN 0
  ELSE 10 * BigIntOf(SubSeq(ds, 1, Len(ds) - 1)) + (CharCodeAt(ds[Len(ds)]) - 48)

\* /^match_(\d+)_(.+)$/.exec(matchId): the groups, or no match
MatchIdGroups(matchId) ==
  IF ~StartsWith(matchId, MatchPrefix) THEN [ok |-> FALSE]
  ELSE LET rest == SubSeq(matchId, Len(MatchPrefix) + 1, Len(matchId))
           stops == {n \in 1..Len(rest) : rest[n] \notin DecimalDigits}
       IN IF stops = {} THEN [ok |-> FALSE]
          ELSE LET n == CHOOSE n \in stops : \A k \in stops : n <= k
               IN IF n > 1 /\ rest[n] = "_" /\ n < Len(rest)
                  THEN [ok |-> TRUE, ts |-> SubSeq(rest, 1, n - 1),
                        suffix |-> SubSeq(rest, n + 1, Len(rest))]
                  ELSE [ok |-> FALSE]

\* a shift by 8 bits in place of 16
MatchIdToRoomIdShift8(matchId) ==
  LET m == MatchIdGroups(matchId)
  IN IF ~m.ok THEN [ok |-> FALSE]
     ELSE [ok |-> TRUE, roomId |-> BitOr(BigIntOf(m.ts) * 256, Hash16(m.suffix))]

\* matchIdToRoomId: (tsMs << 16n) | hash16(suffix), or the thrown error
MatchIdToRoomId(matchId) ==
  LET m == MatchIdGroups(matchId)
  IN IF ~m.ok THEN [ok |-> FALSE]
     ELSE [ok |-> TRUE, roomId |-> BitOr(BigIntOf(m.ts) * Two16, Hash16(m.suffix))]

\* the timestamps and suffixes of the ids given to matchIdToRoomId
StampStrings == Words({"0", "1", "9"}, 2) \ {<<>>}
SuffixStrings == Words({"0", "a", "z", "_"}, 2) \ {<<>>}

\* two match ids of the form match_<digits>_<suffix>
InitRoomId ==
  /\ MMInit
  /\ fired = {}
  /\ IntentInitEmpty
  /\ WorkerInit
  /\ IdleInit
  /\ socketToPlayer = Sockets({})
  /\ \E t1 \in StampStrings, t2 \in StampStrings,
        s1 \in SuffixStrings, s2 \in SuffixStrings :
        calc = [fn |-> "generateMatchId",
                ts |-> <<t1, t2>>, suffix |-> <<s1, s2>>,
                id |-> <<MatchPrefix \o t1 \o <<"_">> \o s1,
                         MatchPrefix \o t2 \o <<"_">> \o s2>>]

\* matchIdToRoomId is called on both ids
RoomIdCall ==
  /\ calc.fn = "generateMatchId"
  /\ calc' = [calc EXCEPT !.fn = "matchIdToRoomId"]
                @@ [out |-> <<MatchIdToRoomId(calc.id[1]),
                              MatchIdToRoomId(calc.id[2])>>]
  /\ UNCHANGED <<mmVars, intentVars, fired, workerVars, gameVars, joins, events,
                 socketToPlayer>>

SpecRoomId == InitRoomId /\ [][RoomIdCall]_vars

(***************************************************************************)
(* EscrowService.validateDepositAmount                                     *)
(***************************************************************************)
\* A JavaScript number is an IEEE-754 double. Every double used here is a
\* whole multiple of 2^-62; bits is that multiple, written in base Limb with
\* the most significant limb first.
Limb == 1000000

\* the number literals given as amounts: the decimal literal, the amount in
\* nanotons it stands for and the double it denotes
TonNumbers ==
  {
    [ton |-> "0", nano |-> 0, bits |-> <<0, 0, 0, 0>>],
    [ton |-> "0.05", nano |-> 50000000, bits |-> <<0, 230584, 300921, 369408>>],
    [ton |-> "0.099", nano |-> 99000000, bits |-> <<0, 456556, 915824, 311424>>],
    [ton |-> "0.0995", nano |-> 99500000, bits |-> <<0, 458862, 758833, 525120>>],
    [ton |-> "0.1", nano |-> 100000000, bits |-> <<0, 461168, 601842, 738816>>],
    [ton |-> "0.1005", nano |-> 100500000, bits |-> <<0, 463474, 444851, 952512>>],
    [ton |-> "0.101", nano |-> 101000000, bits |-> <<0, 465780, 287861, 166208>>],
    [ton |-> "0.102", nano |-> 102000000, bits |-> <<0, 470391, 973879, 593536>>],
    [ton |-> "0.999", nano |-> 999000000, bits |-> <<4, 607074, 332408, 960512>>],
    [ton |-> "1", nano |-> 1000000000, bits |-> <<4, 611686, 18427, 387904>>],
    [ton |-> "1.001", nano |-> 1001000000, bits |-> <<4, 616297, 704445, 814784>>]
  }

\* const tolerance = 0.001: the double 0x3f50624dd2f1a9fc
Tolerance == <<0, 4611, 686018, 427388>>

\* a <= b
RECURSIVE LessEq(_, _)
LessEq(a, b) ==
  IF Len(a) = 0 THEN TRUE
  ELSE IF a[1] # b[1] THEN a[1] < b[1]
  ELSE LessEq(Tail(a), Tail(b))

\* a - b - borrow for a >= b + borrow, limb by limb from the last limb
RECURSIVE Minus(_, _, _)
Minus(a, b, borrow) ==
  IF Len(a) = 0 THEN <<>>
  ELSE LET n == Len(a)
           d == a[n] - b[n] - borrow
       IN Minus(SubSeq(a, 1, n - 1), SubSeq(b, 1, n - 1),
                IF d < 0 THEN 1 ELSE 0)
          \o <<IF d < 0 THEN d + Limb ELSE d>>

\* Math.abs(a - b) where the subtraction of the doubles is exact
AbsDifference(a, b) ==
  IF LessEq(b, a) THEN Minus(a, b, 0) ELSE Minus(b, a, 0)

\* the subtraction of two doubles is exact, with no rounding, when one of
\* them is zero or each is at most twice the other (Sterbenz)
ExactDifference(a, b) ==
  \/ AbsDifference(a, b) \in {a, b}
  \/ /\ LessEq(AbsDifference(a, b), a)
     /\ LessEq(AbsDifference(a, b), b)

\* validateDepositAmount(received, expected) of two numbers
ValidateDepositAmount(received, expected) ==
  LessEq(AbsDifference(received.bits, expected.bits), Tolerance)

\* validateDepositAmount is about to be called with two numbers
InitAmount ==
  /\ MMInit
  /\ fired = {}
  /\ IntentInitEmpty
  /\ WorkerInit
  /\ IdleInit
  /\ socketToPlayer = Sockets({})
  /\ \E received \in TonNumbers, expected \in TonNumbers :
        /\ ExactDifference(received.bits, expected.bits)
        /\ calc = [fn |-> "number", received |-> received, expected |-> expected]

ValidateAmountCall ==
  /\ calc.fn = "number"
  /\ calc' = [fn |-> "validateDepositAmount",
              received |-> calc.received, expected |-> calc.expected,
              out |-> ValidateDepositAmount(calc.received, calc.expected)]
  /\ UNCHANGED <<mmVars, intentVars, fired, workerVars, gameVars, joins, events,
                 socketToPlayer>>

SpecAmount == InitAmount /\ [][ValidateAmountCall]_vars

\* the matches gameService.startRound is called on, as the program holds
\* them: waiting, playing in or between rounds 0..Rounds, finished
RoundMatches ==
  {NewMatch(1, rt, "waiting", <<1, 2>>) : rt \in RoomTypes}
    \cup {[NewMatch(1, rt, "playing", <<1, 2>>) EXCEPT
             !.currentRound = r, !.roundEndTime = e,
             !.press = [p \in Players |-> IF p \in pressed THEN 0 ELSE NoPress]] :
            rt \in RoomTypes, r \in 0..Rounds, e \in 0..1,
            pressed \in SUBSET {1, 2}}
    \cup {[NewMatch(1, rt, "finished", <<1, 2>>) EXCEPT
             !.currentRound = Rounds,
             !.press = [p \in Players |-> IF p \in pressed THEN 0 ELSE NoPress]] :
            rt \in RoomTypes, pressed \in SUBSET {1, 2}}

InitStartRound ==
  /\ MMInit
  /\ fired = {}
  /\ IntentInitEmpty
  /\ WorkerInit
  /\ IdleInit
  /\ socketToPlayer = Sockets({})
  /\ \E m \in RoundMatches : calc = [fn |-> "match", match |-> m]

StartRoundCall(endTime) ==
  /\ calc.fn = "match"
  /\ calc' = [fn |-> "startRound", match |-> calc.match,
              out |-> StartRound(calc.match, endTime)]
  /\ UNCHANGED <<mmVars, intentVars, fired, workerVars, gameVars, joins, events,
                 socketToPlayer>>

SpecStartRound ==
  InitStartRound /\ [][\E endTime \in 1..MaxTime : StartRoundCall(endTime)]_vars

\* a match of two players that two overlapping match:join handlers have both
\* started: each scheduled its own startRoundForMatch timer
InitTimers ==
  /\ \E rt \in RoomTypes :
       /\ activeMatches = <<NewMatch(1, rt, "playing", <<1, 2>>)>>
       /\ dbMatches = <<[id |-> 1, roomType |-> rt, status |-> "playing",
                         players |-> <<1, 2>>]>>
       /\ intents = IF rt = "ton"
                    THEN <<[NewIntent(1, 1, 1) EXCEPT !.status = "PAID"],
                           [NewIntent(2, 2, 1) EXCEPT !.status = "PAID"]>>
                    ELSE <<>>
       /\ statusLog = IF rt = "ton"
                      THEN <<[i |-> 1, from |-> "CREATED", to |-> "PAID",
                              tx |-> NoTx],
                             [i |-> 2, from |-> "CREATED", to |-> "PAID",
                              tx |-> NoTx]>>
                      ELSE <<>>
  /\ playerToMatch = [p \in Players |-> IF p \in {1, 2} THEN 1 ELSE NoMatch]
  /\ pendingDeletes = {}
  /\ nextMatchId = 2
  /\ calls = [c \in CallIds |-> IdleCall]
  /\ ops = 0
  /\ fired = {}
  /\ refunds = <<>>
  /\ procs = [k \in ProcIds |-> IdleProc]
  /\ returns = <<>>
  /\ WorkerInit
  /\ timers = SetToBag({StartTimer(1)}) (+) SetToBag({StartTimer(1)})
  /\ stats = [p \in Players |-> NoStats]
  /\ payments = <<>>
  /\ settles = [k \in ProcIds |-> IdleSettle]
  /\ settleLog = <<>>
  /\ joins = [j \in CallIds |-> IdleJoin]
  /\ events = {}
  /\ calc = NoCalc
  /\ socketToPlayer = Sockets({1, 2})

\* the round timers of a match whose players may leave, up to its settlement
NextTimers ==
  \/ \E id \in MatchIds, t \in 1..MaxTime : StartRoundForMatch(id, t)
  \/ \E k \in ProcIds, id \in MatchIds : EndRoundTimer(k, id)
  \/ \E j \in CallIds, p \in Players : MatchLeave(j, p)
  \/ \E k \in ProcIds, p \in Players : UpdateStats(k, p)
  \/ \E k \in ProcIds : StatsDone(k)
  \/ \E k \in ProcIds : PayoutFind(k)
  \/ \E k \in ProcIds, p \in Players : PaymentCreate(k, p)
  \/ \E k \in ProcIds : PayoutDone(k)
  \/ \E k \in ProcIds : SetStatsUpdated(k)
  \/ \E k \in ProcIds : FinishMatch(k)

SpecTimers == InitTimers /\ [][NextTimers]_vars

\* a lobby after these requests: players 1 and 2 joined free match 1 (their
\* sockets are registered) and played it to the end; both called
\* createJoinIntent (ton match 2, intents 1 and 2); player 1 left before
\* paying (no PAID intent, so no refund); both deposits were credited
InitLeave ==
  /\ activeMatches =
       <<NewMatch(1, "free", "finished", <<1, 2>>),
         [NewMatch(2, "ton", "waiting", <<2>>) EXCEPT !.allPlayers = <<1, 2>>]>>
  /\ playerToMatch = [p \in Players |-> IF p = 2 THEN 2 ELSE NoMatch]
  /\ dbMatches =
       <<[id |-> 1, roomType |-> "free", status |-> "finished",
          players |-> <<1, 2>>],
         [id |-> 2, roomType |-> "ton", status |-> "waiting",
          players |-> <<1, 2>>]>>
  /\ pendingDeletes = {}
  /\ nextMatchId = 3
  /\ calls = [c \in CallIds |-> IdleCall]
  /\ ops = 0
  /\ fired = {}
  /\ intents = <<[NewIntent(1, 1, 2) EXCEPT !.status = "PAID"],
                 [NewIntent(2, 2, 2) EXCEPT !.status = "PAID"]>>
  /\ refunds = <<>>
  /\ statusLog = <<[i |-> 2, from |-> "CREATED", to |-> "PAID", tx |-> NoTx],
                   [i |-> 1, from |-> "CREATED", to |-> "PAID", tx |-> NoTx]>>
  /\ procs = [k \in ProcIds |-> IdleProc]
  /\ returns = <<>>
  /\ WorkerInit
  /\ IdleInit
  /\ calc = NoCalc
  /\ socketToPlayer = Sockets({1, 2})

\* leaves and joins of a ton match in any interleaving
NextLeave ==
  \/ \E j \in CallIds, p \in Players : ops < MaxJoins /\ MatchLeave(j, p)
  \/ \E j \in CallIds, k \in ProcIds : LeaveRefundFind(j, k)
  \/ \E k \in ProcIds : RefundExisting(k)
  \/ \E k \in ProcIds : RefundCreate(k)
  \/ \E k \in ProcIds : RefundUpdate(k)
  \/ \E j \in CallIds : LeaveDone(j)
  \/ \E j \in CallIds, c \in CallIds, p \in Players :
        ops < MaxJoins /\ MatchJoinBegin(j, c, p, "ton")
  \/ \E j \in CallIds : MatchJoinIntent(j)
  \/ \E j \in CallIds : MatchJoinPaid(j)
  \/ \E j \in CallIds : MatchJoinReady(j)
  \/ \E j \in CallIds : MatchJoinStarted(j)
  \/ \E id \in MatchIds, t \in 1..MaxTime : StartRoundForMatch(id, t)
  \/ \E id \in MatchIds : DbDelete(id)

SpecLeave == InitLeave /\ [][NextLeave]_vars

\* two players hold a fresh intent for the same waiting ton match
InitIntents ==
  /\ MMInit
  /\ fired = {}
  /\ intents = <<NewIntent(1, 1, 1), NewIntent(2, 2, 1)>>
  /\ refunds = <<>>
  /\ statusLog = <<>>
  /\ procs = [k \in ProcIds |-> IdleProc]
  /\ returns = <<>>
  /\ WorkerInit
  /\ GameInit

\* JoinIntentService status operations called in any interleaving
NextIntent ==
  \/ \E i \in IntentIds : Expire(i)
  \/ \E k \in ProcIds, i \in IntentIds : MarkPaidRead(k, i)
  \/ \E k \in ProcIds : MarkPaidWrite(k)
  \/ \E k \in ProcIds, i \in IntentIds : CancelRead(k, i)
  \/ \E k \in ProcIds : CancelWrite(k)
  \/ CancelExpiredIntents
  \/ \E k \in ProcIds, p \in Players, m \in MatchIds : RefundFind(k, p, m)
  \/ \E k \in ProcIds : RefundExisting(k)
  \/ \E k \in ProcIds : RefundCreate(k)
  \/ \E k \in ProcIds : RefundUpdate(k)

SpecIntent == InitIntents /\ [][NextIntent]_vars

\* createJoinIntent calls in any interleaving, while intents expire
NextCreate ==
  \/ \E k \in ProcIds, p \in Players : CreateIntentFind(k, p)
  \/ \E k \in ProcIds, c \in CallIds : CreateIntentMatch(k, c)
  \/ \E c \in CallIds : DbLookup(c)
  \/ \E c \in CallIds : FindOrCreateResume(c)
  \/ \E k \in ProcIds, c \in CallIds : CreateIntentSave(k, c)
  \/ \E k \in ProcIds : CreateIntentInsert(k)
  \/ \E i \in IntentIds : Expire(i)

SpecCreate == Init /\ [][NextCreate]_vars

\* the blockchain worker: polling runs that overlap, the expiry sweep, and
\* restarts of the process
NextWorker ==
  \/ Arrive
  \/ \E w \in ProcIds : CycleStart(w)
  \/ \E w \in ProcIds : CycleCursor(w)
  \/ \E w \in ProcIds, ok \in BOOLEAN : CycleFetch(w, ok)
  \/ \E w \in ProcIds : CycleScan(w)
  \/ \E w \in ProcIds : DepositGetIntent(w)
  \/ \E w \in ProcIds, ok \in BOOLEAN : DepositGetTransaction(w, ok)
  \/ \E w \in ProcIds : DepositExisting(w)
  \/ \E w \in ProcIds : DepositCreate(w)
  \/ \E w \in ProcIds : DepositPaidRead(w)
  \/ \E w \in ProcIds : DepositPaidWrite(w)
  \/ \E w \in ProcIds : CycleSave(w)
  \/ Crash
  \/ \E i \in IntentIds : Expire(i)
  \/ CancelExpiredIntents

SpecWorker == InitIntents /\ [][NextWorker]_vars

\* a full match that was just started: the players are in, the row is
\* stored as playing, the timer of the first round is pending; the deposits
\* of a ton match were credited
InitSettle ==
  /\ \E rt \in RoomTypes :
       /\ activeMatches = <<NewMatch(1, rt, "playing", <<1, 2>>)>>
       /\ dbMatches = <<[id |-> 1, roomType |-> rt, status |-> "playing",
                         players |-> <<1, 2>>]>>
       /\ intents = IF rt = "ton"
                    THEN <<[NewIntent(1, 1, 1) EXCEPT !.status = "PAID"],
                           [NewIntent(2, 2, 1) EXCEPT !.status = "PAID"]>>
                    ELSE <<>>
       /\ statusLog = IF rt = "ton"
                      THEN <<[i |-> 1, from |-> "CREATED", to |-> "PAID",
                              tx |-> NoTx],
                             [i |-> 2, from |-> "CREATED", to |-> "PAID",
                              tx |-> NoTx]>>
                      ELSE <<>>
  /\ playerToMatch = [p \in Players |-> IF p \in {1, 2} THEN 1 ELSE NoMatch]
  /\ pendingDeletes = {}
  /\ nextMatchId = 2
  /\ calls = [c \in CallIds |-> IdleCall]
  /\ ops = 0
  /\ fired = {}
  /\ refunds = <<>>
  /\ procs = [k \in ProcIds |-> IdleProc]
  /\ returns = <<>>
  /\ WorkerInit
  /\ timers = SetToBag({StartTimer(1)})
  /\ stats = [p \in Players |-> NoStats]
  /\ payments = <<>>
  /\ settles = [k \in ProcIds |-> IdleSettle]
  /\ settleLog = <<>>
  /\ joins = [j \in CallIds |-> IdleJoin]
  /\ events = {}
  /\ calc = NoCalc
  /\ socketToPlayer = Sockets({1, 2})

\* the round loop of a started match up to its settlement, with repeated
\* round-end triggers and repeated processMatchCompletion calls
NextSettle ==
  \/ \E id \in MatchIds, t \in 1..MaxTime : StartRoundForMatch(id, t)
  \/ \E p \in Players, t \in 0..MaxTime : RecordPress(p, t)
  \/ \E k \in ProcIds, id \in MatchIds : EndRoundTimer(k, id)
  \/ \E k \in ProcIds, id \in MatchIds : EndRoundAgain(k, id)
  \/ \E k \in ProcIds, p \in Players : UpdateStats(k, p)
  \/ \E k \in ProcIds : StatsDone(k)
  \/ \E k \in ProcIds, id \in MatchIds : ProcessMatchCompletion(k, id)
  \/ \E k \in ProcIds : PayoutFind(k)
  \/ \E k \in ProcIds, p \in Players : PaymentCreate(k, p)
  \/ \E k \in ProcIds : PayoutDone(k)
  \/ \E k \in ProcIds : SetStatsUpdated(k)
  \/ \E k \in ProcIds : FinishMatch(k)

SpecSettle == InitSettle /\ [][NextSettle]_vars

\* cumulative scores of players 1 and 2 that three rounds (or one round, for
\* a match still playing) can produce
ScoreLines(st) ==
  IF st = "finished"
  THEN {<<0, 0>>, <<27, 0>>, <<0, 27>>, <<27, 24>>, <<24, 27>>, <<17, 17>>,
        <<9, 18>>, <<18, 9>>, <<9, 0>>}
  ELSE {<<0, 0>>, <<9, 8>>, <<9, 0>>}

\* a ton match of players 1 and 2, still playing or finished, of which one
\* player may have left; no payout yet
InitPayout ==
  /\ \E st \in {"playing", "finished"}, ps \in {<<1, 2>>, <<1>>, <<2>>} :
       \E line \in ScoreLines(st) :
          /\ activeMatches =
               <<[NewMatch(1, "ton", st, ps) EXCEPT
                    !.allPlayers = <<1, 2>>,
                    !.score = [p \in Players |->
                                 IF p \in {1, 2} THEN line[p] ELSE 0],
                    !.currentRound = IF st = "finished" THEN Rounds ELSE 1,
                    !.roundResults = IF st = "finished"
                                     THEN [n \in 1..Rounds |-> n] ELSE <<1>>,
                    !.finishedAt = (st = "finished")]>>
          /\ dbMatches = <<[id |-> 1, roomType |-> "ton", status |-> "playing",
                            players |-> <<1, 2>>]>>
  /\ playerToMatch = [p \in Players |->
        IF Contains(activeMatches[1].players, p) THEN 1 ELSE NoMatch]
  /\ pendingDeletes = {}
  /\ nextMatchId = 2
  /\ calls = [c \in CallIds |-> IdleCall]
  /\ ops = 0
  /\ fired = {}
  /\ intents = <<[NewIntent(1, 1, 1) EXCEPT !.status = "PAID"],
                 [NewIntent(2, 2, 1) EXCEPT !.status = "PAID"]>>
  /\ statusLog = <<[i |-> 1, from |-> "CREATED", to |-> "PAID", tx |-> NoTx],
                   [i |-> 2, from |-> "CREATED", to |-> "PAID", tx |-> NoTx]>>
  /\ refunds = <<>>
  /\ procs = [k \in ProcIds |-> IdleProc]
  /\ returns = <<>>
  /\ WorkerInit
  /\ GameInit

NextPayout ==
  \/ \E k \in ProcIds, id \in MatchIds : CompletionCall(k, id)
  \/ \E k \in ProcIds : PayoutFind(k)
  \/ \E k \in ProcIds, p \in Players : PaymentCreate(k, p)
  \/ \E k \in ProcIds : PayoutDone(k)

SpecPayout == InitPayout /\ [][NextPayout]_vars

\* what the event loop runs without any further request: a pending timer
\* callback, or the continuation of a settlement whose awaited call returned
TimerStep ==
  \/ \E id \in MatchIds, t \in 1..MaxTime : StartRoundForMatch(id, t)
  \/ \E k \in ProcIds, id \in MatchIds : EndRoundTimer(k, id)
  \/ \E k \in ProcIds, p \in Players : UpdateStats(k, p)
  \/ \E k \in ProcIds : StatsDone(k)
  \/ \E k \in ProcIds : PayoutFind(k)
  \/ \E k \in ProcIds, p \in Players : PaymentCreate(k, p)
  \/ \E k \in ProcIds : PayoutDone(k)
  \/ \E k \in ProcIds : SetStatsUpdated(k)
  \/ \E k \in ProcIds : FinishMatch(k)

\* the round loop of a started match: every pending timer fires and every
\* awaited call returns
FairSettle == SpecSettle /\ WF_vars(TimerStep)

\* the same loop from the two pending startRoundForMatch timers, with players
\* leaving
FairTimers == SpecTimers /\ WF_vars(TimerStep)

\* the rounds of a started match: the timers and round:press requests
NextRound ==
  \/ \E id \in MatchIds, t \in 1..MaxTime : StartRoundForMatch(id, t)
  \/ \E p \in Players, t \in 0..MaxTime : RoundPress(p, t)
  \/ \E k \in ProcIds, id \in MatchIds : EndRoundTimer(k, id)

SpecRound == InitSettle /\ [][NextRound]_vars

\* createRefundForPlayer calls interleaved, after deposits were credited
NextRefund ==
  \/ \E k \in ProcIds, i \in IntentIds : MarkPaidRead(k, i)
  \/ \E k \in ProcIds : MarkPaidWrite(k)
  \/ \E k \in ProcIds, p \in Players, m \in MatchIds : RefundFind(k, p, m)
  \/ \E k \in ProcIds : RefundExisting(k)
  \/ \E k \in ProcIds : RefundCreate(k)
  \/ \E k \in ProcIds : RefundUpdate(k)

SpecRefund == InitIntents /\ [][NextRefund]_vars

\* a call that starts only after every earlier call has returned
Sequential == \A k \in ProcIds : procs[k].op = "idle"

NextRefundSeq ==
  \/ \E k \in ProcIds, i \in IntentIds : Sequential /\ MarkPaidRead(k, i)
  \/ \E k \in ProcIds : MarkPaidWrite(k)
  \/ \E k \in ProcIds, p \in Players, m \in MatchIds :
        Sequential /\ RefundFind(k, p, m)
  \/ \E k \in ProcIds : RefundExisting(k)
  \/ \E k \in ProcIds : RefundCreate(k)
  \/ \E k \in ProcIds : RefundUpdate(k)

SpecRefundSeq == InitIntents /\ [][NextRefundSeq]_vars

\* createRefundForPlayer called again after a call failed
NextRetry == NextRefundSeq \/ \E k \in ProcIds : RefundUpdateFails(k)

SpecRetry == InitIntents /\ [][NextRetry]_vars

(***************************************************************************)
(* Matchmaker claims                                                       *)
(***************************************************************************)
Rosters(p) == {i \in 1..Len(activeMatches) : Contains(activeMatches[i].players, p)}

\* C1: after any interleaving of findOrCreateMatch (suspending at its durable
\* store lookup), startMatch and removePlayer, every match of the active
\* table has at most maxPlayers players
C1_Capacity ==
  \A i \in 1..Len(activeMatches) : Len(activeMatches[i].players) <= maxPlayers

\* a match was filled to capacity by a join that resumed from the durable
\* store lookup while another call is still suspended
C1_Witness ==
  /\ \E i \in 1..Len(activeMatches) :
        /\ Len(activeMatches[i].players) = maxPlayers
        /\ Has(dbMatches, activeMatches[i].id)
        /\ Len(Get(dbMatches, activeMatches[i].id).players) < maxPlayers
  /\ \E c \in CallIds : calls[c].pc = "resume"

BurstDone == fired = Players /\ \A c \in CallIds : calls[c].pc = "idle"

CeilDiv(n, d) == (n + d - 1) \div d

\* C2: N > maxPlayers concurrent findOrCreateMatch calls of distinct players
\* against an empty pool leave exactly ceil(N/maxPlayers) matches, the first
\* maxPlayers players together in one match, every player in exactly one
\* match and no match over capacity
C2_BurstPools ==
  BurstDone =>
    /\ Len(activeMatches) = CeilDiv(NumPlayers, maxPlayers)
    /\ \E i \in 1..Len(activeMatches) :
          \A p \in 1..maxPlayers : Contains(activeMatches[i].players, p)
    /\ \A p \in Players : Cardinality(Rosters(p)) = 1
    /\ C1_Capacity

\* C3: a player id is in the roster of at most one active match
C3_SingleActiveMatch == \A p \in Players : Cardinality(Rosters(p)) <= 1

(***************************************************************************)
(* JoinIntent claims                                                       *)
(***************************************************************************)
AllowedTransition(a, b) ==
  \/ a = b
  \/ a = "CREATED" /\ b \in {"PAID", "CANCELLED"}
  \/ a = "PAID" /\ b = "REFUNDED"

\* C4: under any interleaving of markIntentPaid, cancelIntent,
\* cancelExpiredIntents and createRefundForPlayer an intent's status changes
\* only along CREATED->PAID, CREATED->CANCELLED or PAID->REFUNDED
C4_Transitions ==
  [][\A i \in IntentIds :
       AllowedTransition(intents[i].status, intents'[i].status)]_vars

\* the calls in flight that refund intent i
Refunding(i) == {k \in ProcIds : procs[k].op = "refund" /\ procs[k].i = i}

RefundRows(i) == {r \in 1..Len(refunds) : refunds[r].intent = i}

PaidToRefunded(i) ==
  {k \in 1..Len(statusLog) :
     statusLog[k].i = i /\ statusLog[k].from = "PAID"
                        /\ statusLog[k].to = "REFUNDED"}

C7_SingleRefund ==
  \A i \in IntentIds :
    /\ Cardinality(RefundRows(i)) <= 1
    /\ Cardinality(PaidToRefunded(i)) <= 1
    /\ RefundRows(i) # {} => PaidAt(i) > 0
    /\ (RefundRows(i) # {} /\ Refunding(i) = {})
         => Cardinality(PaidToRefunded(i)) = 1

\* two calls raced for the same intent and one of them lost at the index
C7_Witness ==
  \E i \in IntentIds :
    /\ RefundRows(i) # {}
    /\ \E k \in ProcIds : procs[k].op = "refund" /\ procs[k].i = i
                            /\ procs[k].pc = "create"

DepositRowsOfTx(t) == {r \in 1..Len(depositTxs) : depositTxs[r].txHash = t}

DepositRowsOfIntent(i) ==
  {r \in 1..Len(depositTxs) : depositTxs[r].joinIntentId = i}

PaidWrites(i) == {k \in 1..Len(statusLog) : PaidWrite(k, i)}

\* C5: a transaction hash has at most one DepositTx row, an intent has at most
\* one DepositTx row, and an intent is moved to PAID at most once, also when
\* polling runs overlap or a batch is replayed after a restart
C5_DepositOnce ==
  /\ \A t \in TxIds : Cardinality(DepositRowsOfTx(t)) <= 1
  /\ \A i \in IntentIds : Cardinality(DepositRowsOfIntent(i)) <= 1
  /\ \A i \in IntentIds : Cardinality(PaidWrites(i)) <= 1

\* C10: an intent is marked PAID only on behalf of a transaction whose comment
\* is join:<roomId>:<nonce> with the intent's own nonce and stored
\* onChainRoomId; a transaction with the nonce and another room id changes
\* nothing
C10_RoomBound ==
  /\ \A k \in 1..Len(statusLog) :
       statusLog[k].to = "PAID" =>
         /\ statusLog[k].tx \in 1..chainLen
         /\ Trim(feed[statusLog[k].tx].comment)
              = PaymentComment(intents[statusLog[k].i])
  /\ \A i \in IntentIds :
       (\A t \in 1..chainLen :
          Trim(feed[t].comment) # PaymentComment(intents[i]))
         => intents[i].status \in {"CREATED", "CANCELLED"}

\* a run went past the transaction with the foreign room id and left intent 1
\* alone, and a later run credited the deposit with the right room id
C10_Witness ==
  /\ \E k \in 1..Len(statusLog) :
       statusLog[k].i = 1 /\ statusLog[k].to = "PAID" /\ statusLog[k].tx = 3
  /\ \E r \in 1..Len(depositTxs) : depositTxs[r].txHash = 3

(***************************************************************************)
(* Settlement claims                                                       *)
(***************************************************************************)
LogEntries(op, id) ==
  {n \in 1..Len(settleLog) : settleLog[n].op = op /\ settleLog[n].match = id}

PayoutsTo(id, p) ==
  {r \in 1..Len(payments) :
     payments[r].matchId = id /\ payments[r].playerId = p}

\* the settlement of match id is through
Settled(id) ==
  /\ Has(activeMatches, id)
  /\ Get(activeMatches, id).statsUpdated
  /\ \A k \in ProcIds : settles[k].match # id

\* C9: the settlement of a match runs exactly once: however often
\* endRoundForMatch is triggered and processMatchCompletion is called again
\* for the finished match, no player's stats are incremented twice, no
\* winner gets a second payout record, finishMatch runs once
C9_SettlementOnce ==
  /\ \A p \in Players : stats[p].totalGames <= 1
  /\ \A id \in MatchIds :
       /\ \A p \in Players : Cardinality(PayoutsTo(id, p)) <= 1
       /\ Cardinality(LogEntries("finish", id)) <= 1
       /\ Settled(id) =>
            LET m == Get(activeMatches, id)
            IN /\ \A p \in ToSet(m.allPlayers) : stats[p].totalGames = 1
               /\ Cardinality(LogEntries("finish", id)) = 1
               /\ m.roomType # "free" =>
                    \A p \in Players :
                      Cardinality(PayoutsTo(id, p))
                        = (IF p \in DetermineWinners(m) THEN 1 ELSE 0)

\* after the settlement processMatchCompletion was called again and returned
\* the first payouts, and a further trigger or call was made
C9_Witness ==
  /\ Settled(1)
  /\ ops >= 2
  /\ \E n \in 1..Len(settleLog) :
       settleLog[n].op = "payout" /\ settleLog[n].existing

(***************************************************************************)
(* Deposit checks over single transactions of every shape                   *)
(***************************************************************************)
Addresses == {"escrow", "other", "none"}

\* in_msg.value in nanotons: absent, under the threshold by one nanoton, at
\* the threshold, the entry fee, entry fee plus gas reserve, far above
Amounts == {0, 98999999, 99000000, 100000000, 150000000, 2000000000}

\* the deposit of intent 1 with the given destination fields and amount
DepositOf(dest, account, value) ==
  [comment |-> PaymentComment(NewIntent(1, 1, 1)), dest |-> dest,
   account |-> account, value |-> value, source |-> TRUE, age |-> 30]

DepositFeeds ==
  {<<DepositOf(d, a, 150000000)>> : d \in Addresses, a \in Addresses}
    \cup {<<DepositOf("escrow", "escrow", v)>> : v \in Amounts}

InitDeposit ==
  /\ MMInit
  /\ fired = {}
  /\ intents = <<NewIntent(1, 1, 1), NewIntent(2, 2, 1)>>
  /\ refunds = <<>>
  /\ statusLog = <<>>
  /\ procs = [k \in ProcIds |-> IdleProc]
  /\ returns = <<>>
  /\ feed \in DepositFeeds
  /\ chainLen = 0
  /\ depositTxs = <<>>
  /\ lastCheckedLt = 0
  /\ cycles = [w \in ProcIds |-> IdleCycle]
  /\ GameInit

\* now - blockTime of a deposit, in seconds: in the future beyond the clock
\* skew, at the skew, now, recent, at the age limit, beyond it
Ages == {0 - FutureSkewSeconds - 1, 0 - FutureSkewSeconds, 0, 30,
         MaxAgeSeconds, MaxAgeSeconds + 1}

\* the deposit of intent 1 arrives with a block time of any of these ages
InitStamp ==
  /\ MMInit
  /\ fired = {}
  /\ intents = <<NewIntent(1, 1, 1), NewIntent(2, 2, 1)>>
  /\ refunds = <<>>
  /\ statusLog = <<>>
  /\ procs = [k \in ProcIds |-> IdleProc]
  /\ returns = <<>>
  /\ feed \in {<<[DepositOf("escrow", "escrow", 150000000) EXCEPT !.age = a]>> :
                 a \in Ages}
  /\ chainLen = 0
  /\ depositTxs = <<>>
  /\ lastCheckedLt = 0
  /\ cycles = [w \in ProcIds |-> IdleCycle]
  /\ GameInit

\* polling runs over one transaction, overlapping
NextDeposit ==
  \/ Arrive
  \/ \E w \in ProcIds : CycleStart(w)
  \/ \E w \in ProcIds : CycleCursor(w)
  \/ \E w \in ProcIds, ok \in BOOLEAN : CycleFetch(w, ok)
  \/ \E w \in ProcIds : CycleScan(w)
  \/ \E w \in ProcIds : DepositGetIntent(w)
  \/ \E w \in ProcIds, ok \in BOOLEAN : DepositGetTransaction(w, ok)
  \/ \E w \in ProcIds : DepositExisting(w)
  \/ \E w \in ProcIds : DepositCreate(w)
  \/ \E w \in ProcIds : DepositPaidRead(w)
  \/ \E w \in ProcIds : DepositPaidWrite(w)
  \/ \E w \in ProcIds : CycleSave(w)

SpecDeposit == InitDeposit /\ [][NextDeposit]_vars

SpecStamp == InitStamp /\ [][NextDeposit]_vars

\* the valid deposit of intent 1 is on its way; the process may stop and be
\* started again at any point of a polling run
InitRecover ==
  /\ InitDeposit
  /\ feed = <<DepositOf("escrow", "escrow", 150000000)>>

NextRecover == NextDeposit \/ Crash

SpecRecover == InitRecover /\ [][NextRecover]_vars

\* the transactions an intent was written PAID from
PaidFrom == {statusLog[k].tx : k \in {n \in 1..Len(statusLog) :
                 statusLog[n].to = "PAID" /\ statusLog[n].tx # NoTx}}

\* the transactions accepted as a deposit: a DepositTx row or a PAID write
Accepted == PaidFrom \cup {depositTxs[r].txHash : r \in 1..Len(depositTxs)}

\* C11 as stated: an intent is marked PAID only from a transaction whose
\* inbound destination field is present and equals the escrow address
C11_InboundDestination == \A t \in Accepted : feed[t].dest = "escrow"

\* the destination the code can determine: the inbound destination field,
\* or else the account address of the transaction fetched by hash
DestinationOf(tx) == IF tx.dest # "none" THEN tx.dest ELSE tx.account

\* C11 amended: an intent is marked PAID only from a transaction whose
\* destination (inbound destination field, else account address) is the
\* escrow address; a transaction with neither field is rejected
C11_Destination == \A t \in Accepted : DestinationOf(feed[t]) = "escrow"

\* a run went over a deposit whose destination is missing or foreign and
\* left the intent CREATED
C11_Witness ==
  /\ lastCheckedLt = 1
  /\ DestinationOf(feed[1]) # "escrow"
  /\ feed[1].dest = "none"
  /\ intents[1].status = "CREATED"
  /\ depositTxs = <<>>

\* stake - 0.001 TON in nanotons
Threshold == EntryFeeNano - ToleranceNano

\* the step of processDepositMatch that fetched the transaction went on to
\* the DepositTx lookup
AmountAccepted(w) ==
  /\ cycles[w].pc = "tx"
  /\ DepositGetTransaction(w, TRUE)
  /\ cycles'[w].pc = "existing"

AmountRejected(w) ==
  /\ cycles[w].pc = "tx"
  /\ DepositGetTransaction(w, TRUE)
  /\ cycles'[w].pc # "existing"

\* C12: a deposit whose in_msg.value is below stake - 0.001 TON is never
\* accepted (no DepositTx row, the intent is not written PAID), and the
\* amount check lets every in_msg.value at or above it through, however
\* large, when the transaction is otherwise in order
C12_Amount ==
  [][/\ \A t \in Accepted' : feed[t].value >= Threshold
     /\ \A w \in ProcIds :
          /\ AmountAccepted(w) => feed[Cur(w).tx].value >= Threshold
          /\ (AmountRejected(w) /\ DestinationOf(feed[Cur(w).tx]) = "escrow")
               => feed[Cur(w).tx].value < Threshold]_vars

\* a deposit of exactly stake - 0.001 TON was accepted and paid the intent
C12_Witness ==
  /\ feed[1].value = Threshold
  /\ 1 \in PaidFrom
  /\ intents[1].status = "PAID"
  /\ Len(depositTxs) = 1

\* transaction t is a deposit that would pay the still-active intent i
ValidDeposit(t, i) ==
  /\ i # NoIntent
  /\ MatchOf(t, 0) = i
  /\ DestinationOf(feed[t]) = "escrow"
  /\ ~AmountTooLow(feed[t].value)
  /\ ValidateDepositTimestamp(feed[t].age)

\* a run in flight still has transaction t to process
Pending(t) ==
  \E w \in ProcIds :
    /\ cycles[w].pc \notin {"idle", "cursor", "fetch", "scan", "save"}
    /\ \E n \in cycles[w].idx..Len(cycles[w].matches) :
         cycles[w].matches[n].tx = t

\* no valid deposit of a still-active intent lies at or below the cursor
\* without a run working on it
NoDepositSkipped ==
  \A t \in 1..lastCheckedLt : \A i \in IntentIds :
    (t <= chainLen /\ ValidDeposit(t, i)) => Pending(t)

CursorMonotonic == lastCheckedLt' >= lastCheckedLt

\* C13: the persisted cursor lastCheckedLt never decreases, and it never
\* passes a valid deposit of a still-active intent that was left unpaid, so
\* that a later run is presented the transaction again
C13_Cursor == [][CursorMonotonic /\ NoDepositSkipped']_vars


(***************************************************************************)
(* Lobby: from the joins to the first round                                *)
(***************************************************************************)
\* the roster of match id is at maxPlayers and the match is waiting
Full(id) ==
  /\ Has(activeMatches, id)
  /\ Get(activeMatches, id).status = "waiting"
  /\ Len(Get(activeMatches, id).players) = maxPlayers

\* match id is playing, match:started went to its room, a round was started
FirstRoundStarted(id) ==
  /\ Has(activeMatches, id)
  /\ Get(activeMatches, id).status # "waiting"
  /\ Emitted("match:started", id, 0) \in events
  /\ Get(activeMatches, id).currentRound >= 1

\* a step that takes match id from waiting to playing
Starts(id) ==
  /\ Has(activeMatches, id) /\ Get(activeMatches, id).status = "waiting"
  /\ Has(activeMatches', id) /\ Get(activeMatches', id).status = "playing"

\* C14: a match is not started while its roster is below maxPlayers, and a
\* waiting match whose roster reached maxPlayers is eventually playing with
\* match:started emitted to its room and its first round started
C14_FullMatchStarts ==
  /\ [][\A id \in MatchIds :
          Starts(id) => Len(Get(activeMatches, id).players) >= maxPlayers]_vars
  /\ \A id \in MatchIds : Full(id) ~> FirstRoundStarted(id)

\* C15: a match goes from waiting to playing only with a roster of exactly
\* maxPlayers players, at least 2 of them
C15_StartOnlyAtCapacity ==
  [][\A id \in MatchIds :
       Starts(id) =>
         /\ Len(Get(activeMatches, id).players) = maxPlayers
         /\ Len(Get(activeMatches, id).players) >= 2]_vars

\* position of a status in the life of a match
StatusRank(st) ==
  IF st = "waiting" THEN 0 ELSE IF st = "playing" THEN 1 ELSE 2

\* C16: the status that getMatch(id) shows never moves back to an earlier one
C16_StatusForward ==
  [][\A id \in MatchIds :
       (Has(activeMatches, id) /\ Has(activeMatches', id)) =>
          StatusRank(Get(activeMatches', id).status) >=
             StatusRank(Get(activeMatches, id).status)]_vars

\* a step in which startRound begins a new round of match id
BeginsRound(id) ==
  /\ Has(activeMatches, id) /\ Has(activeMatches', id)
  /\ Get(activeMatches', id).currentRound > Get(activeMatches, id).currentRound

\* C17: startRound begins a new round of a match only when no round of that
\* match is in progress
C17_RoundsSequential ==
  [][\A id \in MatchIds :
       BeginsRound(id) => Get(activeMatches, id).roundEndTime = 0]_vars


(***************************************************************************)
(* Rounds: scoring and presses                                             *)
(***************************************************************************)
\* a step in which endRound closes the round in progress of match id
EndsRound(id) ==
  /\ Has(activeMatches, id) /\ Has(activeMatches', id)
  /\ Get(activeMatches, id).roundEndTime # 0
  /\ Get(activeMatches', id).roundEndTime = 0
  /\ Get(activeMatches', id).currentRound = Get(activeMatches, id).currentRound

\* a recorded press at or before the deadline, 0 included
PressCounts(m, p) == m.press[p] # NoPress /\ m.press[p] <= m.roundEndTime

\* rank by ascending roundEndTime - pressTime, equal presses in roster order
Rank(m, p) ==
  1 + Cardinality({n \in 1..Len(m.players) :
        /\ PressCounts(m, m.players[n])
        /\ \/ m.press[m.players[n]] > m.press[p]
           \/ /\ m.press[m.players[n]] = m.press[p]
              /\ n < IndexOfPlayer(m.players, p)})

\* max(1, 10 - rank) for a press that counts, 0 otherwise
ExpectedScore(m, p) == IF PressCounts(m, p) THEN Max(1, 10 - Rank(m, p)) ELSE 0

\* deadline 10000 with presses 9500, 8000 and none
ExampleRound ==
  [NewMatch(1, "free", "playing", <<1, 2, 3>>) EXCEPT
     !.roundEndTime = 10000,
     !.press = [p \in Players |->
                  IF p = 1 THEN 9500 ELSE IF p = 2 THEN 8000 ELSE NoPress]]

\* C18: endRound counts every recorded press from 0 up to the deadline,
\* ranks them by ascending distance to the deadline, gives rank k the round
\* score max(1, 10 - k) and everybody else 0, and adds the round score to the
\* cumulative score; the example round scores 9, 8, 0
C18_RoundScores ==
  /\ <<RoundScore(ExampleRound, 1, 10000), RoundScore(ExampleRound, 2, 10000),
       RoundScore(ExampleRound, 3, 10000)>> = <<9, 8, 0>>
  /\ [][\A id \in MatchIds :
          EndsRound(id) =>
             \A p \in ToSet(Get(activeMatches, id).players) :
                Get(activeMatches', id).score[p] =
                   Get(activeMatches, id).score[p]
                      + ExpectedScore(Get(activeMatches, id), p)]_vars

\* player p has a recorded press in the round in progress of its match
AlreadyPressed(p) ==
  /\ HasMatchByPlayerId(p)
  /\ Get(activeMatches, playerToMatch[p]).status = "playing"
  /\ Get(activeMatches, playerToMatch[p]).roundEndTime # 0
  /\ Contains(Get(activeMatches, playerToMatch[p]).players, p)
  /\ Get(activeMatches, playerToMatch[p]).press[p] # NoPress

ErrorEvents == {e \in events : e.name = "error"}

\* C19: a press by a player who already pressed in the round in progress is
\* answered without an error and leaves every pressTime and the rest of the
\* match as they were
C19_FirstPressOnly ==
  [][\A p \in Players, t \in 0..MaxTime :
       (AlreadyPressed(p) /\ RoundPress(p, t)) =>
          /\ activeMatches' = activeMatches
          /\ ErrorEvents' = ErrorEvents]_vars

\* player 1 pressed at 1 in the first round and pressed again; nobody else
\* sent a press and no press was answered with an error
C19_Witness ==
  /\ ops = 2
  /\ ErrorEvents = {}
  /\ Has(activeMatches, 1)
  /\ Get(activeMatches, 1).currentRound = 1
  /\ Get(activeMatches, 1).roundEndTime # 0
  /\ Get(activeMatches, 1).press = [p \in Players |->
                                      IF p = 1 THEN 1 ELSE NoPress]
  /\ {e.to : e \in {x \in events : x.name = "round:playerPressed"}} = {1}

\* C20: no event sent while a round is in progress shows its receiver the
\* pressTime of another player
C20_PressPrivate ==
  \A e \in events :
     e.name = "round:playerPressed" =>
        \A q \in Players \ {e.to} : e.press[q] = NoPress


(***************************************************************************)
(* Intent contracts                                                        *)
(***************************************************************************)
\* a markIntentPaid(i) call that finds a status other than CREATED throws:
\* nothing is written and the call is over
PaidRefused ==
  \A k \in ProcIds, i \in IntentIds :
     (MarkPaidRead(k, i) /\ intents[i].status # "CREATED") =>
        intents' = intents /\ statusLog' = statusLog /\ procs'[k] = IdleProc

\* every write of PAID found the intent CREATED
PaidFromCreated ==
  \A n \in 1..Len(statusLog) :
     statusLog[n].to = "PAID" => statusLog[n].from = "CREATED"

\* C21: markIntentPaid throws and writes nothing when the status is not
\* CREATED, and status PAID is written only to an intent that is CREATED
C21_PaidGuard == [][PaidRefused /\ PaidFromCreated']_vars

\* C22: every player on the roster of a ton match holds a PAID intent bound
\* to that match
C22_PaidBeforeRoster ==
  \A n \in 1..Len(activeMatches) :
     activeMatches[n].roomType = "ton" =>
        \A p \in ToSet(activeMatches[n].players) :
           HasPaidIntentForJoin(p, activeMatches[n].id)

\* the match that intent i is bound to is in memory and no longer waiting
Started(i) ==
  /\ Has(activeMatches, intents[i].match)
  /\ Get(activeMatches, intents[i].match).status # "waiting"

\* C23: no Refund row is created for an intent, and no intent becomes
\* REFUNDED, once the match of the intent is playing
C23_NoRefundAfterStart ==
  [][\A i \in IntentIds :
       Started(i) =>
          /\ (RefundOf(i) = 0 => RefundOf(i)' = 0)
          /\ (intents[i].status # "REFUNDED" => intents'[i].status # "REFUNDED")]_vars

(***************************************************************************)
(* Pure helpers                                                            *)
(***************************************************************************)
Parsed == calc.fn = "extractRoomIdAndNonceFromComment"

\* generateNonce's alphabet: the lowercase hex digits
LowerHex ==
  {"0", "1", "2", "3", "4", "5", "6", "7", "8", "9",
   "a", "b", "c", "d", "e", "f"}

IsLowerHexNonce(s) == Len(s) = NonceLen /\ \A n \in 1..Len(s) : s[n] \in LowerHex

\* a segment of exactly NonceLen hex digits
HexSegment(s) ==
  /\ Len(s) = NonceLen
  /\ \A n \in 1..Len(s) : s[n] \in LowerHex \cup {"A", "B", "C", "D", "E", "F"}

\* the comment of a lowercase hex nonce parses back to the same pair
RoundTrip ==
  (Parsed /\ IsLowerHexNonce(calc.nonce)) =>
     calc.out = [ok |-> TRUE, roomId |-> calc.room, nonce |-> calc.nonce]

\* C24 (as stated): the comment join:<room>:<nonce> of a nonce of NonceLen
\* lowercase hex characters parses back to the same (room, nonce), and the
\* parser returns null whenever the nonce segment is shorter, longer or holds
\* a character that is no hex digit
C24_ParseExact ==
  /\ RoundTrip
  /\ (Parsed /\ ~HexSegment(calc.nonce)) => ~calc.out.ok

\* C24 (amended): the same, the nonce segment being taken after the trim of
\* the comment; blanks at the end of the comment are not part of it
C24_ParseTrimmed ==
  /\ RoundTrip
  /\ (Parsed /\ ~HexSegment(TrimRight(calc.nonce))) => ~calc.out.ok

\* an over-long segment with a character that is no hex digit was refused
C24_Witness ==
  /\ Parsed
  /\ calc.nonce = <<"1", "a", "g">>
  /\ ~calc.out.ok

Converted == calc.fn = "matchIdToRoomId"

\* the number a string of the digits 0, 1 and 9 denotes
RECURSIVE Stamp(_)
Stamp(ds) ==
  IF Len(ds) = 0 THEN 0
  ELSE 10 * Stamp(SubSeq(ds, 1, Len(ds) - 1))
       + (CASE ds[Len(ds)] = "0" -> 0 [] ds[Len(ds)] = "1" -> 1
            [] ds[Len(ds)] = "9" -> 9)

\* the low 16 bits of the FNV-1a hash, computed on 16 bits alone: the low
\* half of a product depends on the low halves of its factors only
RECURSIVE Fnv16(_, _)
Fnv16(h, str) ==
  IF Len(str) = 0 THEN h
  ELSE Fnv16((Xor(h, CharCodeAt(Head(str))) * 403) % 65536, Tail(str))

\* C25: the room id of match_<digits>_<suffix> is
\* timestamp * 2^16 + (FNV-1a-32(suffix) mod 2^16), and of two ids the one
\* with the smaller timestamp has the strictly smaller room id, whatever the
\* suffixes
C25_RoomIdOrder ==
  Converted =>
     /\ \A n \in 1..2 :
           /\ calc.out[n].ok
           /\ calc.out[n].roomId
                 = Stamp(calc.ts[n]) * 65536 + Fnv16(40389, calc.suffix[n])
     /\ Stamp(calc.ts[1]) < Stamp(calc.ts[2])
           => calc.out[1].roomId < calc.out[2].roomId

\* the earlier id has the larger hash of the two: timestamps 9 and 10
C25_Witness ==
  /\ Converted
  /\ Stamp(calc.ts[1]) + 1 = Stamp(calc.ts[2])
  /\ Hash16(calc.suffix[1]) > Hash16(calc.suffix[2]) + 256

Validated == calc.fn = "validateDepositAmount"

\* |a - b| of two integers
Distance(a, b) == IF a < b THEN b - a ELSE a - b

\* C26: validateDepositAmount(received, expected) is true exactly when the
\* two amounts differ by at most 1,000,000 nanotons (0.001 TON)
C26_AmountTolerance ==
  Validated =>
     (calc.out <=> Distance(calc.received.nano, calc.expected.nano) <= 1000000)

\* now - 10*60 <= blockTime <= now + 60, on the age now - blockTime
InWindow(age) == age <= 10 * 60 /\ 0 - 60 <= age

\* C27: validateDepositTimestamp accepts exactly the block times of the
\* window [now - maxAge, now + 60 s], and no DepositTx row or PAID write comes
\* from a transaction whose block time is outside it
C27_TimeWindow ==
  [][/\ \A t \in Accepted' : InWindow(feed[t].age)
     /\ \A w \in ProcIds :
          /\ AmountAccepted(w) => InWindow(feed[Cur(w).tx].age)
          /\ AmountRejected(w) => ~InWindow(feed[Cur(w).tx].age)]_vars

\* a deposit exactly maxAge old paid its intent
C27_Witness ==
  /\ feed[1].age = 10 * 60
  /\ 1 \in PaidFrom
  /\ intents[1].status = "PAID"

(***************************************************************************)
(* Rounds: the start and the end of a round                                *)
(***************************************************************************)
RoundCalled == calc.fn = "startRound"

\* C28: startRound succeeds exactly when the match is playing and
\* currentRound < rounds; it then adds one to currentRound, clears every press
\* and sets the round times, and changes nothing else; when it throws, the
\* match is as it was
C28_StartRound ==
  RoundCalled =>
     LET m == calc.match
         after == calc.out.match
     IN /\ calc.out.ok <=> (m.status = "playing" /\ m.currentRound < 3)
        /\ calc.out.ok =>
              /\ after.currentRound = m.currentRound + 1
              /\ \A p \in Players : after.press[p] = NoPress
              /\ after.roundEndTime # 0
              /\ after = [m EXCEPT !.currentRound = after.currentRound,
                                   !.press = after.press,
                                   !.roundEndTime = after.roundEndTime]
        /\ ~calc.out.ok => after = m

\* the last round of a playing match was started over the presses of the
\* round before
C28_Witness ==
  /\ RoundCalled
  /\ calc.match.status = "playing"
  /\ calc.match.currentRound = 2
  /\ calc.match.press[1] # NoPress
  /\ calc.out.ok
  /\ calc.out.match.currentRound = 3

\* every finished match in memory is at its last round
FinishedAtLast ==
  \A n \in 1..Len(activeMatches) :
     activeMatches[n].status = "finished" => activeMatches[n].currentRound = 3

\* the step from match m to match after: endRound ran on it when it has a new
\* round result or is newly finished; it then ended round m.currentRound
EndRoundEffect(m, after) ==
  (Len(after.roundResults) > Len(m.roundResults)
     \/ (m.status # "finished" /\ after.status = "finished")) =>
     /\ after.roundResults = Append(m.roundResults, m.currentRound)
     /\ after.roundEndTime = 0
     /\ after.currentRound = m.currentRound
     /\ m.status = "playing"
     /\ (after.status = "finished") <=> (m.currentRound = 3)
     /\ after.finishedAt <=> (m.currentRound = 3)
     /\ after.status \in {"playing", "finished"}

\* C29: a finished match has currentRound = rounds; endRound finishes the
\* match (and stamps finishedAt) exactly when it ends round number rounds,
\* appends exactly one round result and clears the round times
C29_EndRound ==
  /\ []FinishedAtLast
  /\ [][\A id \in MatchIds :
          (Has(activeMatches, id) /\ Has(activeMatches', id)) =>
             EndRoundEffect(Get(activeMatches, id), Get(activeMatches', id))]_vars

\* the match finished at the end of its third round, with three results
C29_Witness ==
  /\ Has(activeMatches, 1)
  /\ Get(activeMatches, 1).status = "finished"
  /\ Get(activeMatches, 1).roundResults = <<1, 2, 3>>
  /\ Get(activeMatches, 1).finishedAt
  /\ Get(activeMatches, 1).roundEndTime = 0

\* match id is not in the active table, or is finished
Gone(id) ==
  ~Has(activeMatches, id) \/ Get(activeMatches, id).status = "finished"

\* no match state, round result, event or settlement changes
NoEffect ==
  /\ activeMatches' = activeMatches
  /\ dbMatches' = dbMatches
  /\ events' = events
  /\ settles' = settles
  /\ stats' = stats
  /\ payments' = payments
  /\ settleLog' = settleLog

\* C30: a start or end timer that fires for a match that is removed from the
\* active table or finished changes no match, appends no round result, emits
\* no event and starts no settlement
C30_StaleTimer ==
  [][\A id \in MatchIds :
       Gone(id) =>
          /\ \A t \in 1..MaxTime : StartRoundForMatch(id, t) => NoEffect
          /\ \A k \in ProcIds : EndRoundTimer(k, id) => NoEffect]_vars

\* rounds 2 and 3 were both started before an end timer fired, the first end
\* timer finished the match and the second fired on the finished match
C30_Witness ==
  /\ Has(activeMatches, 1)
  /\ Get(activeMatches, 1).status = "finished"
  /\ Get(activeMatches, 1).roundResults = <<1, 3>>
  /\ timers = EmptyBag

(***************************************************************************)
(* Deposits: a stop of the process, expiry                                 *)
(***************************************************************************)
AtRest == \A w \in ProcIds : cycles[w].pc = "idle"

\* a DepositTx row of intent i was persisted and the intent is not PAID
Unpaid(i) ==
  /\ intents[i].status = "CREATED"
  /\ \E r \in 1..Len(depositTxs) : depositTxs[r].joinIntentId = i

\* the next run will read the transaction of every unpaid DepositTx row again
CursorBehind ==
  \A r \in 1..Len(depositTxs) :
     (AtRest /\ Unpaid(depositTxs[r].joinIntentId)) =>
        lastCheckedLt < depositTxs[r].txHash

OneRowPerTransaction ==
  \A r, q \in 1..Len(depositTxs) :
     depositTxs[r].txHash = depositTxs[q].txHash => r = q

\* run w ends, and it had read the transaction of an unpaid DepositTx row
ReadAgain(w, i) ==
  /\ cycles[w].pc = "save"
  /\ cycles'[w].pc = "idle"
  /\ Unpaid(i)
  /\ \E k \in 1..Len(cycles[w].matches), r \in 1..Len(depositTxs) :
        /\ cycles[w].matches[k].intent = i
        /\ depositTxs[r].joinIntentId = i
        /\ depositTxs[r].txHash = cycles[w].matches[k].tx

\* C31: when the process stops between the DepositTx row and the PAID write,
\* the cursor is still behind that transaction, so the next polling run reads
\* it again; that run creates no second DepositTx row for it and ends with
\* the intent PAID.
C31_Recovery ==
  /\ [](CursorBehind /\ OneRowPerTransaction)
  /\ [][\A w \in ProcIds, i \in IntentIds :
          ReadAgain(w, i) => intents'[i].status = "PAID"]_vars

\* the step writes PAID to intent i
BecomesPaid(i) == intents[i].status # "PAID" /\ intents'[i].status = "PAID"

\* C32: every write of PAID finds the intent CREATED and not past its
\* expiresAt, also when the expiry or the expiry sweep falls between the
\* worker's lookup of the active intents and markIntentPaid.
C32_PaidUnexpired ==
  [][\A i \in IntentIds :
       BecomesPaid(i) =>
          intents[i].status = "CREATED" /\ ~intents[i].expired]_vars

(***************************************************************************)
(* Rosters and lookup tables                                               *)
(***************************************************************************)
\* the entries of table t other than id are those of table u
SameOthers(t, u, id) ==
  \A x \in MatchIds \ {id} :
     /\ Has(t, x) <=> Has(u, x)
     /\ Has(t, x) => Get(t, x) = Get(u, x)

\* what removePlayer(p) does to a player who has a match
RemovesPlayer(p) ==
  LET r == Removed(p)
      id == playerToMatch[p]
      m == Get(activeMatches, id)
  IN /\ r.p2m = [playerToMatch EXCEPT ![p] = NoMatch]
     /\ SameOthers(r.tbl, activeMatches, id)
     /\ Has(r.tbl, id) <=> \E n \in 1..Len(m.players) : m.players[n] # p
     /\ Has(r.tbl, id) =>
          /\ ~Contains(Get(r.tbl, id).players, p)
          /\ Get(r.tbl, id).players = Without(m.players, p)
          /\ Get(r.tbl, id).allPlayers = m.allPlayers
          /\ Get(r.tbl, id).status = m.status

\* C33: removePlayer takes the player out of the active roster and out of
\* playerToMatch and leaves allPlayers as it was; the match leaves the
\* active table exactly when its roster becomes empty; for a player with no
\* match nothing changes.
C33_RemovePlayer ==
  \A p \in Players :
     IF HasMatchByPlayerId(p)
     THEN RemovesPlayer(p)
     ELSE /\ Removed(p).tbl = activeMatches
          /\ Removed(p).p2m = playerToMatch
          /\ Removed(p).dels = pendingDeletes

\* a leave handler has removed player 2 from a roster that player 1 stays
\* on, and another has removed the last player of a match
C33_Witness ==
  /\ \E e \in events : e.name = "match:left" /\ e.to = 2
  /\ \E id \in MatchIds :
        /\ Has(activeMatches, id)
        /\ Get(activeMatches, id).players = <<1>>
        /\ Contains(Get(activeMatches, id).allPlayers, 2)
  /\ playerToMatch[2] = NoMatch

\* the ton branch of match:join handler j pushes its player to the roster
TonPush(j) ==
  /\ joins[j].pc = "paid"
  /\ joins'[j].pc = "ready"
  /\ ~Contains(Get(activeMatches, joins[j].match).players, joins[j].player)
  /\ Contains(Get(activeMatches', joins[j].match).players, joins[j].player)

\* C34: the ton branch of match:join pushes a player only to a match that is
\* waiting and has room, so the roster of a ton match never exceeds
\* maxPlayers.
C34_TonJoinGuarded ==
  /\ [](\A n \in 1..Len(activeMatches) :
          activeMatches[n].roomType = "ton" =>
             Len(activeMatches[n].players) <= maxPlayers)
  /\ [][\A j \in CallIds :
          TonPush(j) =>
             /\ Get(activeMatches, joins[j].match).status = "waiting"
             /\ HasRoom(Get(activeMatches, joins[j].match))]_vars

(***************************************************************************)
(* Payouts                                                                 *)
(***************************************************************************)
\* the players of allPlayers with the highest cumulative score
TopScorers(m) ==
  {p \in ToSet(m.allPlayers) :
     \A q \in ToSet(m.allPlayers) : m.score[q] <= m.score[p]}

\* the pot of the match after the platform fee, in nanotons: 0.1 TON a
\* player less 10 percent in a ton room, nothing in a free room
PotAfterFee(m) ==
  IF m.roomType = "ton"
  THEN (EntryFeeNano \div 10) * 9 * Len(m.allPlayers)
  ELSE 0

\* processMatchCompletion of call k returns payment data it has just created
Completes(k) ==
  /\ settles[k].pc = "paycreate"
  /\ settles[k].todo = {}
  /\ settles'[k].pc = "idle"

\* the payout rows of the match are one row for each top scorer, and each
\* row carries an equal share of the pot after the fee
PaysTopScorers(m) ==
  /\ \A p \in Players :
        Cardinality({r \in PayoutRows(m.id) : payments[r].playerId = p}) =
           IF p \in TopScorers(m) THEN 1 ELSE 0
  /\ \A r \in PayoutRows(m.id) :
        payments[r].amount * Cardinality(TopScorers(m)) = PotAfterFee(m)

\* C35: when processMatchCompletion returns for a finished match, the payout
\* rows are exactly one per player of allPlayers with the highest cumulative
\* score, players who left included, each of totalBank * (1 - fee/100) /
\* winners with totalBank = entryFee * |allPlayers|, so that they add up to
\* the pot after the fee; a match that is not finished never has a payout.
C35_Payout ==
  /\ [](\A n \in 1..Len(activeMatches) :
          activeMatches[n].status # "finished" =>
             /\ PayoutRows(activeMatches[n].id) = {}
             /\ \A e \in 1..Len(settleLog) : settleLog[e].op # "payout")
  /\ [][\A k \in ProcIds :
          Completes(k) =>
             PaysTopScorers(Get(activeMatches, settles[k].match))]_vars

\* the only payout of a finished match went to a player who had left it
C35_Witness ==
  /\ \A k \in ProcIds : settles[k].pc = "idle"
  /\ Len(payments) = 1
  /\ activeMatches[1].status = "finished"
  /\ ~Contains(activeMatches[1].players, payments[1].playerId)
  /\ payments[1].amount = PotAfterFee(activeMatches[1])

\* C36: the match that getMatchByPlayerId(p) returns has p on its roster, and
\* every player on the roster of an active match is mapped to that match by
\* playerToMatch.
C36_LookupConsistent ==
  /\ \A p \in Players :
        HasMatchByPlayerId(p) =>
           Contains(Get(activeMatches, playerToMatch[p]).players, p)
  /\ \A n \in 1..Len(activeMatches) :
        \A p \in ToSet(activeMatches[n].players) :
           playerToMatch[p] = activeMatches[n].id

\* findOrCreateMatch call c resumes after its lookup in the durable store
Resumes(c) == calls[c].pc = "resume" /\ calls'[c].pc # "resume"

\* ... and restores the stored waiting match it was answered with
Restoring(c) ==
  /\ Resumes(c)
  /\ calls[c].dbMatch # NoRow
  /\ Len(calls[c].dbMatch.players) < maxPlayers

\* C37: findOrCreateMatch restores a stored match only under an id that is
\* absent from the active table, and a resuming call keeps the status and
\* every roster player of each match that is in the table.
C37_RestoreOnlyAbsent ==
  [][\A c \in CallIds :
       /\ Restoring(c) => ~Has(activeMatches, calls[c].dbMatch.id)
       /\ Resumes(c) =>
            \A id \in MatchIds :
               Has(activeMatches, id) =>
                  /\ Has(activeMatches', id)
                  /\ Get(activeMatches', id).status =
                        Get(activeMatches, id).status
                  /\ ToSet(Get(activeMatches, id).players) \subseteq
                        ToSet(Get(activeMatches', id).players)]_vars

(***************************************************************************)
(* Refunds: the intent behind a returned refund id                         *)
(***************************************************************************)
\* createRefundForPlayer call k returns a refund id
ReturnsRefundId(k) ==
  /\ procs[k].op = "refund"
  /\ procs'[k].op = "idle"
  /\ Len(returns') = Len(returns) + 1
  /\ returns'[Len(returns')].id # NoIntent

\* C38: when createRefundForPlayer returns a refund id the backing intent is
\* REFUNDED, also when the call is made again after a call that failed
\* between refund.create and joinIntent.update.
C38_RefundedOnReturn ==
  [][\A k \in ProcIds :
       ReturnsRefundId(k) => intents'[procs[k].i].status = "REFUNDED"]_vars

(***************************************************************************)
(* Sockets                                                                 *)
(***************************************************************************)
\* a match:leave or disconnect handler of the socket of player p completes
LeaveCompletes(p) ==
  \/ \E j \in CallIds :
        joins[j].pc = "leaving" /\ joins[j].player = p /\ joins'[j].pc = "idle"
  \/ /\ \A j \in CallIds : joins'[j] = joins[j]
     /\ socketToPlayer[p] = p
     /\ playerToMatch[p] # NoMatch
     /\ playerToMatch'[p] = NoMatch

\* C39: when a match:leave or disconnect handler has completed for a socket,
\* getPlayerBySocket returns undefined for it, also when the player was the
\* last one and the match was purged from the active table.
C39_SocketForgotten ==
  [][\A p \in Players :
       LeaveCompletes(p) => socketToPlayer'[p] = NoPlayer]_vars

(***************************************************************************)
(* Rounds: the loop runs to the end of the match                           *)
(***************************************************************************)
IsPlaying(id) ==
  Has(activeMatches, id) /\ Get(activeMatches, id).status = "playing"

\* every player left and removePlayer purged the match
Purged(id) == ~Has(activeMatches, id)

\* match:finished was emitted to the room of match id
FinishedEmitted(id) == RoundEvent("match:finished", id, 0) \in events

\* one result per round, numbered 1..preset.rounds in order
AllRounds == [n \in 1..Rounds |-> n]

PlayedOut(id) ==
  /\ Has(activeMatches, id)
  /\ Get(activeMatches, id).status = "finished"
  /\ Get(activeMatches, id).currentRound = Rounds
  /\ Get(activeMatches, id).roundResults = AllRounds
  /\ FinishedEmitted(id)

\* the settlement run of slot k reaches its end and emits match:finished
EmitsFinished(k) == settles[k].pc = "finish" /\ settles'[k].pc # "finish"

\* C40: once a match is playing and a player stays in it, with timers that
\* fire it eventually is finished after exactly preset.rounds rounds, its
\* roundResults hold one result per round numbered 1..preset.rounds in order,
\* and match:finished is emitted once
C40_RoundsToFinish ==
  /\ \A id \in MatchIds : IsPlaying(id) ~> (Purged(id) \/ PlayedOut(id))
  /\ [](\A id \in MatchIds :
          (Has(activeMatches, id) /\ Get(activeMatches, id).status = "finished")
             => Get(activeMatches, id).roundResults = AllRounds)
  /\ [][\A k \in ProcIds :
          EmitsFinished(k) => ~FinishedEmitted(settles[k].match)]_vars

====
